---- MODULE Spec2Model ----
(***************************************************************************)
(* The run loop of the trainer (src/src/trainer_test/trainer.py): the      *)
(* STARTING attempts, the running cycle (healthcheck, level check,         *)
(* currency check), the interval wait and the signal handler that sets     *)
(* the cancellation flag.  The collaborators (capture, detector, OCR       *)
(* engine, key injection, audio, webhook) are inputs of the actions.       *)
(***************************************************************************)
EXTENDS Integers, Sequences, FiniteSets

VARIABLES
    pc,              \* position of the main thread
    stop_event,      \* threading.Event set by the signal handler
    attempt,         \* loop variable of the retry loop in progress
    previous_level,  \* _run_action_loop's previous_level (None or an int)
    detected_level,  \* _perform_level_cycle's detected_level
    detected_zen,    \* _perform_zen_cycle's detected_zen
    ingame_found,    \* last result of _detect_ingame
    dialog_found,    \* last result of _detect_dialog
    menu_open,       \* menu_open / inventory_open: last menu detector result
    closed,          \* closed flag of the close loop
    taps,            \* toggle keys sent by the menu loop last entered
    tapKey,          \* key of the last tap sent
    captures,        \* screenshots captured by the loop or step last entered
    ocrTries,        \* OCR attempts made in the current check
    waits,           \* retry waits begun in STARTING
    cue,             \* play_audio(START_SOUND_FILE) was called
    errNotes,        \* error notifications attempted in the current cycle
    levelNotes,      \* level notifications attempted in the current cycle
    zenNotes,        \* currency notifications attempted in the current cycle
    cycles,          \* running cycles begun
    exit_code,       \* value returned by main (None while running)
    call,            \* function under evaluation with its arguments
    ret              \* what that call returned

locals == <<attempt, detected_level, detected_zen, ingame_found, dialog_found,
            menu_open, closed>>
observed == <<taps, tapKey, captures, ocrTries, waits, cue, errNotes,
              levelNotes, zenNotes>>
calls == <<call, ret>>
loop == <<pc, stop_event, previous_level, cycles, exit_code, locals, observed>>
vars == <<loop, calls>>

\* Python's None, for the optional integers (no parsed value is negative).
None == -1

(***************************************************************************)
(* Program constants.                                                      *)
(***************************************************************************)
STARTING_MAX_ATTEMPTS == 5
MENU_MAX_RETRIES == 10
MENU_CLOSE_MAX_RETRIES == 10
LEVEL_MAX_ATTEMPTS == 3
ZEN_MAX_ATTEMPTS == 3
LEVEL_MAX_VALUE == 400
ZEN_MAX_VALUE == 2000000000
ZEN_THRESHOLD_INFO == 1900000000

\* Number of running cycles a behaviour of the model may begin.
MaxCycles == 2

(***************************************************************************)
(* Texts: the OCR engine's output, a sequence of one-character strings.    *)
(***************************************************************************)
DigitChars == <<"0", "1", "2", "3", "4", "5", "6", "7", "8", "9">>

IsDigit(c) == \E i \in 1..10 : DigitChars[i] = c

DigitValue(c) == (CHOOSE i \in 1..10 : DigitChars[i] = c) - 1

IsSpace(c) == c \in {" ", "\t", "\n", "\r"}

\* int(): the value of a non-empty sequence of decimal digits.
RECURSIVE IntOf(_)
IntOf(ds) ==
    IF ds = <<>> THEN 0
    ELSE 10 * IntOf(SubSeq(ds, 1, Len(ds) - 1)) + DigitValue(ds[Len(ds)])

\* First index >= i of t that holds no whitespace (Len(t) + 1 if none): \s*
RECURSIVE SkipSpaces(_, _)
SkipSpaces(t, i) ==
    IF i <= Len(t) /\ IsSpace(t[i]) THEN SkipSpaces(t, i + 1) ELSE i

\* First index >= i of t that holds no digit: the greedy \d*
RECURSIVE SkipDigits(_, _)
SkipDigits(t, i) ==
    IF i <= Len(t) /\ IsDigit(t[i]) THEN SkipDigits(t, i + 1) ELSE i

\* t holds the characters of lit at index i; with fold, ignoring case.
Lower(c) ==
    CASE c = "L" -> "l" [] c = "E" -> "e" [] c = "V" -> "v" [] OTHER -> c

LitAt(t, i, lit, fold) ==
    /\ i + Len(lit) - 1 <= Len(t)
    /\ \A k \in 1..Len(lit) :
          IF fold THEN Lower(t[i + k - 1]) = Lower(lit[k])
          ELSE t[i + k - 1] = lit[k]

\* LEVEL_TEXT_PATTERN matched at index s of t: the bounds of group 1, or <<>>.
LEVEL_TEXT_PATTERN_at(t, s) ==
    IF ~LitAt(t, s, <<"l", "e", "v", "e", "l", ":">>, TRUE) THEN <<>>
    ELSE LET d1 == SkipSpaces(t, s + 6)
             d2 == SkipDigits(t, d1)
             sl == SkipSpaces(t, d2)
             f1 == SkipSpaces(t, sl + 1)
         IN  IF /\ d2 > d1
                /\ LitAt(t, sl, <<"/">>, TRUE)
                /\ LitAt(t, f1, <<"4", "0", "0">>, TRUE)
             THEN <<d1, d2 - 1>>
             ELSE <<>>

\* (the extraction without its range check)
_extract_level_value_unranged(text) ==
    LET starts == {s \in 1..Len(text) : LEVEL_TEXT_PATTERN_at(text, s) # <<>>}
    IN  IF starts = {} THEN None
        ELSE LET s == CHOOSE m \in starts : \A o \in starts : m <= o
                 g == LEVEL_TEXT_PATTERN_at(text, s)
             IN  IntOf(SubSeq(text, g[1], g[2]))

_extract_level_value_AtStart(text) ==
    LET g == LEVEL_TEXT_PATTERN_at(text, 1)
    IN  IF Len(text) = 0 \/ g = <<>> THEN None
        ELSE LET level_value == IntOf(SubSeq(text, g[1], g[2]))
             IN  IF level_value < 0 \/ level_value > LEVEL_MAX_VALUE
                 THEN None
                 ELSE level_value

\* LEVEL_TEXT_PATTERN.search(text), int(match.group(1)), the range check
_extract_level_value(text) ==
    LET starts == {s \in 1..Len(text) : LEVEL_TEXT_PATTERN_at(text, s) # <<>>}
    IN  IF starts = {} THEN None
        ELSE LET s == CHOOSE m \in starts : \A o \in starts : m <= o
                 g == LEVEL_TEXT_PATTERN_at(text, s)
                 level_value == IntOf(SubSeq(text, g[1], g[2]))
             IN  IF level_value < 0 \/ level_value > LEVEL_MAX_VALUE
                 THEN None
                 ELSE level_value

\* First index >= i of t that holds neither a digit nor a comma: [0-9,]*
RECURSIVE SkipDigitsCommas(_, _)
SkipDigitsCommas(t, i) ==
    IF i <= Len(t) /\ (IsDigit(t[i]) \/ t[i] = ",")
    THEN SkipDigitsCommas(t, i + 1) ELSE i

\* str.replace(",", "")
RECURSIVE StripCommas(_)
StripCommas(t) ==
    IF t = <<>> THEN <<>>
    ELSE IF Head(t) = "," THEN StripCommas(Tail(t))
         ELSE <<Head(t)>> \o StripCommas(Tail(t))

\* ZEN_TEXT_PATTERN matched at the start of t: the bounds of group 1, or <<>>.
\* $ matches at the end of the text and before a newline that ends it.
ZEN_TEXT_PATTERN_match(t) ==
    LET g1 == SkipSpaces(t, 1)
        g2 == SkipDigitsCommas(t, g1)
        AtEnd(e) == e = Len(t) + 1 \/ (e = Len(t) /\ t[e] = "\n")
    IN  IF /\ g1 <= Len(t)
           /\ IsDigit(t[g1])
           /\ \E e \in g2..(Len(t) + 1) :
                 /\ AtEnd(e)
                 /\ \A k \in g2..(e - 1) : IsSpace(t[k])
        THEN <<g1, g2 - 1>>
        ELSE <<>>

_parse_zen_value_Prefix(text) ==
    LET g1 == SkipSpaces(text, 1)
        g2 == SkipDigitsCommas(text, g1)
    IN  IF g1 > Len(text) \/ ~IsDigit(text[g1]) THEN None
        ELSE LET value == IntOf(StripCommas(SubSeq(text, g1, g2 - 1)))
             IN  IF value < 0 \/ value > ZEN_MAX_VALUE THEN None ELSE value

\* ZEN_TEXT_PATTERN.match(text), replace(",", ""), int(), the range check
_parse_zen_value(text) ==
    LET g == ZEN_TEXT_PATTERN_match(text)
    IN  IF g = <<>> THEN None
        ELSE LET digits == StripCommas(SubSeq(text, g[1], g[2]))
                 value == IntOf(digits)
             IN  IF value < 0 \/ value > ZEN_MAX_VALUE THEN None ELSE value

(***************************************************************************)
(* Inputs of the model: what the collaborators may answer.                 *)
(***************************************************************************)
\* str(n), for n >= 0
RECURSIVE Decimal(_)
Decimal(n) ==
    IF n < 10 THEN <<DigitChars[n + 1]>>
    ELSE Decimal(n \div 10) \o <<DigitChars[(n % 10) + 1]>>

LevelText(n) ==
    <<"L", "e", "v", "e", "l", ":", " ">> \o Decimal(n) \o <<"/", "4", "0", "0">>

\* Texts the level OCR may read from the character menu.
LevelTexts ==
    {LevelText(n) : n \in {140, 150, 160, 170, 400, 401, 999}}
        \cup {<<>>, <<"L", "e", "v", "e", "l", ":", " ", "/", "4", "0", "0">>}

\* Texts the currency OCR may read from the inventory.
ZenTexts ==
    { <<"1", ",", "2", "3", "4", ",", "5", "6", "7">>,
      <<"1", ",", "9", "0", "0", ",", "0", "0", "0", ",", "0", "0", "0">>,
      <<"1", ",", "9", "0", "0", ",", "0", "0", "0", ",", "0", "0", "1">>,
      <<"2", "0", "0", "0", "0", "0", "0", "0", "0", "1">>,
      <<"1", "2", "a", "3", "4">>,
      <<>> }

\* An OCR call returns None (file, region or engine failure) or an OcrResult.
OcrAbsent == [absent |-> TRUE, text |-> <<>>]

LevelOcrResults == {OcrAbsent} \cup {[absent |-> FALSE, text |-> t] : t \in LevelTexts}

ZenOcrResults == {OcrAbsent} \cup {[absent |-> FALSE, text |-> t] : t \in ZenTexts}

\* _perform_level_ocr_from_screenshot(...).value, None when the result is absent
LevelOcrValue(r) == IF r.absent THEN None ELSE _extract_level_value(r.text)

\* _perform_zen_ocr_from_screenshot(...).value, None when the result is absent
ZenOcrValue(r) == IF r.absent THEN None ELSE _parse_zen_value(r.text)

\* for attempt in range(n): another iteration follows iteration i
RangeHasNext_OneMore(i, n) == i + 1 <= n

RangeHasNext(i, n) == i + 1 < n

\* An external action returns or raises: tap and play_audio are called without
\* a try, and send_discord_notification catches HTTPError and URLError only
\* (a malformed webhook URL or an unreadable attachment raises).  A raised
\* exception leaves _run_action_loop and is caught by main.  A notification
\* that returns reports delivery, which the loop does not look at.
CallOutcomes == {"ok", "raised"}

NotifyOutcomes == {"delivered", "failed", "raised"}

(***************************************************************************)
(* Initial state: main has registered the signal handlers and is about to  *)
(* call _run_action_loop.                                                  *)
(***************************************************************************)
Init ==
    /\ pc = "run_action_loop"
    /\ stop_event = FALSE
    /\ attempt = 0
    /\ previous_level = None
    /\ detected_level = None
    /\ detected_zen = None
    /\ ingame_found = FALSE
    /\ dialog_found = FALSE
    /\ menu_open = FALSE
    /\ closed = FALSE
    /\ taps = 0
    /\ tapKey = "none"
    /\ captures = 0
    /\ ocrTries = 0
    /\ waits = 0
    /\ cue = FALSE
    /\ errNotes = 0
    /\ levelNotes = 0
    /\ zenNotes = 0
    /\ cycles = 0
    /\ exit_code = None
    /\ call = [fn |-> "none"]
    /\ ret = None

Running == pc \notin {"exited"}

\* The signal handler: stop_event.set()
handler ==
    /\ Running
    /\ UNCHANGED <<call, ret>>
    /\ stop_event' = TRUE
    /\ UNCHANGED <<pc, previous_level, cycles, exit_code, locals, observed>>

(***************************************************************************)
(* _run_action_loop and _enter_running_state (STARTING)                    *)
(***************************************************************************)
\* if stop_event.is_set(): return; else call _enter_running_state
_run_action_loop_entry ==
    /\ pc = "run_action_loop"
    /\ UNCHANGED <<call, ret>>
    /\ pc' = IF stop_event THEN "returned" ELSE "starting_poll"
    /\ attempt' = 0
    /\ UNCHANGED <<stop_event, previous_level, cycles, exit_code, detected_level,
                   detected_zen, ingame_found, dialog_found, menu_open, closed,
                   observed>>

\* for attempt in range(STARTING_MAX_ATTEMPTS): if stop_event.is_set(): return False
_enter_running_state_poll ==
    /\ pc = "starting_poll"
    /\ UNCHANGED <<call, ret>>
    /\ pc' = IF attempt >= STARTING_MAX_ATTEMPTS \/ stop_event
             THEN "start_failed" ELSE "starting_attempt"
    /\ UNCHANGED <<stop_event, previous_level, cycles, exit_code, locals, observed>>

\* if attempt < STARTING_MAX_ATTEMPTS - 1: a wait follows failed attempt i
RetryWaitDue_AfterLast(i) == i < STARTING_MAX_ATTEMPTS

RetryWaitDue(i) == i < STARTING_MAX_ATTEMPTS - 1

\* capture, _detect_ingame; found: start cue, return True; else wait or go on
_enter_running_state_attempt ==
    /\ pc = "starting_attempt"
    /\ UNCHANGED <<call, ret>>
    /\ \E found \in BOOLEAN, audio \in CallOutcomes :
          /\ captures' = captures + 1
          /\ ingame_found' = found
          /\ IF found
             THEN /\ cue' = TRUE
                  /\ pc' = IF audio = "raised" THEN "raised" ELSE "started"
                  /\ UNCHANGED <<attempt, waits>>
             ELSE /\ cue' = cue
                  /\ IF RetryWaitDue(attempt)
                     THEN /\ pc' = "starting_wait"
                          /\ waits' = waits + 1
                          /\ attempt' = attempt
                     ELSE /\ pc' = "starting_poll"
                          /\ waits' = waits
                          /\ attempt' = attempt + 1
    /\ UNCHANGED <<stop_event, previous_level, cycles, exit_code, detected_level,
                   detected_zen, dialog_found, menu_open, closed, taps, tapKey,
                   ocrTries, errNotes, levelNotes, zenNotes>>

_enter_running_state_wait_Sleep ==
    /\ pc = "starting_wait"
    /\ UNCHANGED <<call, ret>>
    /\ pc' = "starting_poll" /\ attempt' = attempt + 1
    /\ UNCHANGED <<stop_event, previous_level, cycles, exit_code, detected_level,
                   detected_zen, ingame_found, dialog_found, menu_open, closed,
                   observed>>

\* if stop_event.wait(STARTING_RETRY_DELAY_SECONDS): return False
_enter_running_state_wait ==
    /\ pc = "starting_wait"
    /\ UNCHANGED <<call, ret>>
    /\ IF stop_event
       THEN pc' = "start_failed" /\ attempt' = attempt
       ELSE pc' = "starting_poll" /\ attempt' = attempt + 1
    /\ UNCHANGED <<stop_event, previous_level, cycles, exit_code, detected_level,
                   detected_zen, ingame_found, dialog_found, menu_open, closed,
                   observed>>

\* if not _enter_running_state(stop_event): return
_run_action_loop_not_started ==
    /\ pc = "start_failed"
    /\ UNCHANGED <<call, ret>>
    /\ pc' = "returned"
    /\ UNCHANGED <<stop_event, previous_level, cycles, exit_code, locals, observed>>

\* previous_level = None, then the while loop
_run_action_loop_started ==
    /\ pc = "started"
    /\ UNCHANGED <<call, ret>>
    /\ pc' = "while"
    /\ previous_level' = None
    /\ waits' = 0
    /\ captures' = 0
    /\ UNCHANGED <<stop_event, cycles, exit_code, locals, taps, tapKey, ocrTries,
                   cue, errNotes, levelNotes, zenNotes>>

\* while not stop_event.is_set(): cycle_start = ...; _perform_running_cycle
_run_action_loop_while ==
    /\ pc = "while"
    /\ UNCHANGED <<call, ret>>
    /\ IF stop_event
       THEN /\ pc' = "returned"
            /\ UNCHANGED <<cycles, locals, observed>>
       ELSE /\ cycles < MaxCycles
            /\ cycles' = cycles + 1
            /\ pc' = "healthcheck"
            /\ attempt' = 0
            /\ detected_level' = None
            /\ detected_zen' = None
            /\ ingame_found' = FALSE
            /\ dialog_found' = FALSE
            /\ menu_open' = FALSE
            /\ closed' = FALSE
            /\ taps' = 0
            /\ tapKey' = "none"
            /\ captures' = 0
            /\ ocrTries' = 0
            /\ errNotes' = 0
            /\ levelNotes' = 0
            /\ zenNotes' = 0
            /\ UNCHANGED <<waits, cue>>
    /\ UNCHANGED <<stop_event, previous_level, exit_code>>

(***************************************************************************)
(* _perform_running_cycle: healthcheck, level check, currency check        *)
(***************************************************************************)
SendErrorAndAbort_Silent(outcome) ==
    /\ errNotes' = errNotes
    /\ pc' = "cycle_failed"

\* _send_error_notification(...) followed by the return of a failure
SendErrorAndAbort(outcome) ==
    /\ errNotes' = errNotes + 1
    /\ pc' = IF outcome = "raised" THEN "raised" ELSE "cycle_failed"

\* if not ingame_found: ... return False; if dialog_found: ... return False
HealthcheckFails_NoDialog(ingame, dialog) == ~ingame

HealthcheckFails(ingame, dialog) == ~ingame \/ dialog

\* capture; in-game detector; dialog detector; error notification on failure
_perform_healthcheck_cycle ==
    /\ pc = "healthcheck"
    /\ UNCHANGED <<call, ret>>
    /\ \E ingame \in BOOLEAN, dialog \in BOOLEAN, note \in NotifyOutcomes :
          /\ captures' = captures + 1
          /\ ingame_found' = ingame
          /\ dialog_found' = IF ingame THEN dialog ELSE dialog_found
          /\ IF HealthcheckFails(ingame, dialog)
             THEN SendErrorAndAbort(note)
             ELSE /\ pc' = "level_open"
                  /\ errNotes' = errNotes
    /\ UNCHANGED <<stop_event, previous_level, cycles, exit_code, attempt,
                   detected_level, detected_zen, menu_open, closed, taps, tapKey,
                   ocrTries, waits, cue, levelNotes, zenNotes>>

\* _perform_level_cycle begins: menu_open = False, the open loop's first attempt
_perform_level_cycle_enter ==
    /\ pc = "level_open"
    /\ UNCHANGED <<call, ret>>
    /\ pc' = "level_open_attempt"
    /\ attempt' = 0
    /\ menu_open' = FALSE
    /\ taps' = 0
    /\ captures' = 0
    /\ ocrTries' = 0
    /\ UNCHANGED <<stop_event, previous_level, cycles, exit_code, detected_level,
                   detected_zen, ingame_found, dialog_found, closed, tapKey,
                   waits, cue, errNotes, levelNotes, zenNotes>>

\* One attempt of an open loop: _tap_with_delay(key), capture, detector;
\* break when the detector reports the menu open.
OpenAttempt(key, max_retries, opened, exhausted) ==
    \E tap \in CallOutcomes, found \in BOOLEAN :
       IF tap = "raised"
       THEN /\ pc' = "raised"
            /\ UNCHANGED <<attempt, menu_open, taps, tapKey, captures>>
       ELSE /\ taps' = taps + 1
            /\ tapKey' = key
            /\ captures' = captures + 1
            /\ menu_open' = found
            /\ IF found
               THEN pc' = opened /\ attempt' = attempt
               ELSE /\ attempt' = attempt + 1
                    /\ pc' = IF RangeHasNext(attempt, max_retries) THEN pc ELSE exhausted

\* (a close loop that taps once and does not look at the detector)
CloseAttempt_Unconfirmed(key, max_retries, done, exhausted) ==
    \E tap \in CallOutcomes, found \in BOOLEAN :
       IF tap = "raised"
       THEN /\ pc' = "raised"
            /\ UNCHANGED <<attempt, menu_open, closed, taps, tapKey, captures>>
       ELSE /\ taps' = taps + 1
            /\ tapKey' = key
            /\ captures' = captures + 1
            /\ menu_open' = found
            /\ closed' = TRUE
            /\ pc' = done
            /\ attempt' = attempt

\* One attempt of a close loop: _tap_with_delay(key), capture, detector;
\* closed = True and break when the detector reports the menu absent.
CloseAttempt(key, max_retries, done, exhausted) ==
    \E tap \in CallOutcomes, found \in BOOLEAN :
       IF tap = "raised"
       THEN /\ pc' = "raised"
            /\ UNCHANGED <<attempt, menu_open, closed, taps, tapKey, captures>>
       ELSE /\ taps' = taps + 1
            /\ tapKey' = key
            /\ captures' = captures + 1
            /\ menu_open' = found
            /\ closed' = ~found
            /\ IF ~found
               THEN pc' = done /\ attempt' = attempt
               ELSE /\ attempt' = attempt + 1
                    /\ pc' = IF RangeHasNext(attempt, max_retries) THEN pc ELSE exhausted

\* for attempt in range(MENU_MAX_RETRIES): tap C, capture, _detect_character_menu
_perform_level_cycle_open ==
    /\ pc = "level_open_attempt"
    /\ UNCHANGED <<call, ret>>
    /\ OpenAttempt("C", MENU_MAX_RETRIES, "level_opened", "level_open_failed")
    /\ UNCHANGED <<stop_event, previous_level, cycles, exit_code, detected_level,
                   detected_zen, ingame_found, dialog_found, closed, ocrTries,
                   waits, cue, errNotes, levelNotes, zenNotes>>

\* if not menu_open: error notification; return False, previous_level
_perform_level_cycle_open_failed ==
    /\ pc = "level_open_failed"
    /\ UNCHANGED <<call, ret>>
    /\ \E note \in NotifyOutcomes : SendErrorAndAbort(note)
    /\ UNCHANGED <<stop_event, previous_level, cycles, exit_code, locals, taps,
                   tapKey, captures, ocrTries, waits, cue, levelNotes, zenNotes>>

\* detected_level = None, then the OCR loop
_perform_level_cycle_opened ==
    /\ pc = "level_opened"
    /\ UNCHANGED <<call, ret>>
    /\ pc' = "level_ocr"
    /\ attempt' = 0
    /\ detected_level' = None
    /\ captures' = 0
    /\ UNCHANGED <<stop_event, previous_level, cycles, exit_code, detected_zen,
                   ingame_found, dialog_found, menu_open, closed, taps, tapKey,
                   ocrTries, waits, cue, errNotes, levelNotes, zenNotes>>

\* for attempt in range(LEVEL_MAX_ATTEMPTS): capture, level OCR; break on a value
_perform_level_cycle_ocr ==
    /\ pc = "level_ocr"
    /\ UNCHANGED <<call, ret>>
    /\ \E ocr_result \in LevelOcrResults :
          /\ captures' = captures + 1
          /\ ocrTries' = ocrTries + 1
          /\ IF LevelOcrValue(ocr_result) # None
             THEN /\ detected_level' = LevelOcrValue(ocr_result)
                  /\ pc' = "level_read"
                  /\ attempt' = attempt
             ELSE /\ detected_level' = detected_level
                  /\ attempt' = attempt + 1
                  /\ pc' = IF RangeHasNext(attempt, LEVEL_MAX_ATTEMPTS)
                           THEN pc ELSE "level_ocr_failed"
    /\ UNCHANGED <<stop_event, previous_level, cycles, exit_code, detected_zen,
                   ingame_found, dialog_found, menu_open, closed, taps, tapKey,
                   waits, cue, errNotes, levelNotes, zenNotes>>

\* if detected_level is None: error notification; return False, previous_level
_perform_level_cycle_ocr_failed ==
    /\ pc = "level_ocr_failed"
    /\ UNCHANGED <<call, ret>>
    /\ \E note \in NotifyOutcomes : SendErrorAndAbort(note)
    /\ UNCHANGED <<stop_event, previous_level, cycles, exit_code, locals, taps,
                   tapKey, captures, ocrTries, waits, cue, levelNotes, zenNotes>>

\* (the chain without its previous_level is not None guard)
LevelNotifications_Unguarded(previous, detected) ==
    IF previous < 380 /\ 380 <= detected THEN 1
    ELSE IF previous < 280 /\ 280 <= detected THEN 1
    ELSE IF previous < 150 /\ 150 <= detected THEN 1
    ELSE 0

\* (three independent ifs in place of the if / elif chain)
LevelNotifications_PerThreshold(previous, detected) ==
    IF previous = None THEN 0
    ELSE (IF previous < 380 /\ 380 <= detected THEN 1 ELSE 0)
       + (IF previous < 280 /\ 280 <= detected THEN 1 ELSE 0)
       + (IF previous < 150 /\ 150 <= detected THEN 1 ELSE 0)

\* The if / elif chain on the thresholds 380, 280, 150: the number of
\* _send_info_notification calls it makes.
LevelNotifications(previous, detected) ==
    IF previous = None THEN 0
    ELSE IF previous < 380 /\ 380 <= detected THEN 1
    ELSE IF previous < 280 /\ 280 <= detected THEN 1
    ELSE IF previous < 150 /\ 150 <= detected THEN 1
    ELSE 0

\* if previous_level is not None: ...; closed = False, then the close loop
_perform_level_cycle_notify ==
    /\ pc = "level_read"
    /\ UNCHANGED <<call, ret>>
    /\ \E note \in NotifyOutcomes :
          LET n == LevelNotifications(previous_level, detected_level)
          IN  /\ levelNotes' = levelNotes + n
              /\ pc' = IF n > 0 /\ note = "raised" THEN "raised" ELSE "level_close"
    /\ attempt' = 0
    /\ closed' = FALSE
    /\ taps' = 0
    /\ captures' = 0
    /\ UNCHANGED <<stop_event, previous_level, cycles, exit_code, detected_level,
                   detected_zen, ingame_found, dialog_found, menu_open, tapKey,
                   ocrTries, waits, cue, errNotes, zenNotes>>

\* for attempt in range(MENU_CLOSE_MAX_RETRIES): tap C, capture, detector
_perform_level_cycle_close ==
    /\ pc = "level_close"
    /\ UNCHANGED <<call, ret>>
    /\ CloseAttempt("C", MENU_CLOSE_MAX_RETRIES, "zen_open", "level_close_failed")
    /\ UNCHANGED <<stop_event, previous_level, cycles, exit_code, detected_level,
                   detected_zen, ingame_found, dialog_found, ocrTries, waits, cue,
                   errNotes, levelNotes, zenNotes>>

_perform_level_cycle_close_failed_GoOn ==
    /\ pc = "level_close_failed"
    /\ UNCHANGED <<call, ret>>
    /\ errNotes' = errNotes + 1
    /\ pc' = "zen_open"
    /\ UNCHANGED <<stop_event, previous_level, cycles, exit_code, locals, taps,
                   tapKey, captures, ocrTries, waits, cue, levelNotes, zenNotes>>

\* if not closed: error notification; return False, detected_level
_perform_level_cycle_close_failed ==
    /\ pc = "level_close_failed"
    /\ UNCHANGED <<call, ret>>
    /\ \E note \in NotifyOutcomes : SendErrorAndAbort(note)
    /\ UNCHANGED <<stop_event, previous_level, cycles, exit_code, locals, taps,
                   tapKey, captures, ocrTries, waits, cue, levelNotes, zenNotes>>

\* _perform_zen_cycle begins: inventory_open = False, the open loop
_perform_zen_cycle_enter ==
    /\ pc = "zen_open"
    /\ UNCHANGED <<call, ret>>
    /\ pc' = "zen_open_attempt"
    /\ attempt' = 0
    /\ menu_open' = FALSE
    /\ closed' = FALSE
    /\ taps' = 0
    /\ captures' = 0
    /\ ocrTries' = 0
    /\ UNCHANGED <<stop_event, previous_level, cycles, exit_code, detected_level,
                   detected_zen, ingame_found, dialog_found, tapKey, waits, cue,
                   errNotes, levelNotes, zenNotes>>

\* for attempt in range(MENU_MAX_RETRIES): tap I, capture, _detect_inventory
_perform_zen_cycle_open ==
    /\ pc = "zen_open_attempt"
    /\ UNCHANGED <<call, ret>>
    /\ OpenAttempt("I", MENU_MAX_RETRIES, "zen_opened", "zen_open_failed")
    /\ UNCHANGED <<stop_event, previous_level, cycles, exit_code, detected_level,
                   detected_zen, ingame_found, dialog_found, closed, ocrTries,
                   waits, cue, errNotes, levelNotes, zenNotes>>

\* if not inventory_open: error notification; return False
_perform_zen_cycle_open_failed ==
    /\ pc = "zen_open_failed"
    /\ UNCHANGED <<call, ret>>
    /\ \E note \in NotifyOutcomes : SendErrorAndAbort(note)
    /\ UNCHANGED <<stop_event, previous_level, cycles, exit_code, locals, taps,
                   tapKey, captures, ocrTries, waits, cue, levelNotes, zenNotes>>

\* detected_zen = None, then the OCR loop
_perform_zen_cycle_opened ==
    /\ pc = "zen_opened"
    /\ UNCHANGED <<call, ret>>
    /\ pc' = "zen_ocr"
    /\ attempt' = 0
    /\ detected_zen' = None
    /\ captures' = 0
    /\ UNCHANGED <<stop_event, previous_level, cycles, exit_code, detected_level,
                   ingame_found, dialog_found, menu_open, closed, taps, tapKey,
                   ocrTries, waits, cue, errNotes, levelNotes, zenNotes>>

\* for attempt in range(ZEN_MAX_ATTEMPTS): capture, currency OCR; break on a value
_perform_zen_cycle_ocr ==
    /\ pc = "zen_ocr"
    /\ UNCHANGED <<call, ret>>
    /\ \E ocr_result \in ZenOcrResults :
          /\ captures' = captures + 1
          /\ ocrTries' = ocrTries + 1
          /\ IF ZenOcrValue(ocr_result) # None
             THEN /\ detected_zen' = ZenOcrValue(ocr_result)
                  /\ pc' = "zen_read"
                  /\ attempt' = attempt
             ELSE /\ detected_zen' = detected_zen
                  /\ attempt' = attempt + 1
                  /\ pc' = IF RangeHasNext(attempt, ZEN_MAX_ATTEMPTS)
                           THEN pc ELSE "zen_ocr_failed"
    /\ UNCHANGED <<stop_event, previous_level, cycles, exit_code, detected_level,
                   ingame_found, dialog_found, menu_open, closed, taps, tapKey,
                   waits, cue, errNotes, levelNotes, zenNotes>>

\* if detected_zen is None: error notification; return False
_perform_zen_cycle_ocr_failed ==
    /\ pc = "zen_ocr_failed"
    /\ UNCHANGED <<call, ret>>
    /\ \E note \in NotifyOutcomes : SendErrorAndAbort(note)
    /\ UNCHANGED <<stop_event, previous_level, cycles, exit_code, locals, taps,
                   tapKey, captures, ocrTries, waits, cue, levelNotes, zenNotes>>

\* (a comparison that also fires at the threshold)
ZenNotifications_AtThreshold(detected) ==
    IF detected >= ZEN_THRESHOLD_INFO THEN 1 ELSE 0

\* if detected_zen > ZEN_THRESHOLD_INFO: the number of notifications sent
ZenNotifications(detected) == IF detected > ZEN_THRESHOLD_INFO THEN 1 ELSE 0

\* if detected_zen > ZEN_THRESHOLD_INFO: ...; closed = False, then the close loop
_perform_zen_cycle_notify ==
    /\ pc = "zen_read"
    /\ UNCHANGED <<call, ret>>
    /\ \E note \in NotifyOutcomes :
          LET n == ZenNotifications(detected_zen)
          IN  /\ zenNotes' = zenNotes + n
              /\ pc' = IF n > 0 /\ note = "raised" THEN "raised" ELSE "zen_close"
    /\ attempt' = 0
    /\ closed' = FALSE
    /\ taps' = 0
    /\ captures' = 0
    /\ UNCHANGED <<stop_event, previous_level, cycles, exit_code, detected_level,
                   detected_zen, ingame_found, dialog_found, menu_open, tapKey,
                   ocrTries, waits, cue, errNotes, levelNotes>>

\* for attempt in range(MENU_CLOSE_MAX_RETRIES): tap I, capture, detector
_perform_zen_cycle_close ==
    /\ pc = "zen_close"
    /\ UNCHANGED <<call, ret>>
    /\ CloseAttempt("I", MENU_CLOSE_MAX_RETRIES, "cycle_done", "zen_close_failed")
    /\ UNCHANGED <<stop_event, previous_level, cycles, exit_code, detected_level,
                   detected_zen, ingame_found, dialog_found, ocrTries, waits, cue,
                   errNotes, levelNotes, zenNotes>>

\* if not closed: error notification; return False
_perform_zen_cycle_close_failed ==
    /\ pc = "zen_close_failed"
    /\ UNCHANGED <<call, ret>>
    /\ \E note \in NotifyOutcomes : SendErrorAndAbort(note)
    /\ UNCHANGED <<stop_event, previous_level, cycles, exit_code, locals, taps,
                   tapKey, captures, ocrTries, waits, cue, levelNotes, zenNotes>>

(***************************************************************************)
(* The rest of the while loop, and main                                    *)
(***************************************************************************)
\* (a loop that went on to the next cycle instead)
_run_action_loop_continue ==
    /\ pc = "cycle_failed"
    /\ UNCHANGED <<call, ret>>
    /\ pc' = "while"
    /\ UNCHANGED <<stop_event, previous_level, cycles, exit_code, locals, observed>>

\* _perform_running_cycle returned (False, previous_level): break
_run_action_loop_break ==
    /\ pc = "cycle_failed"
    /\ UNCHANGED <<call, ret>>
    /\ pc' = "returned"
    /\ UNCHANGED <<stop_event, previous_level, cycles, exit_code, locals, observed>>

_run_action_loop_cycle_done_KeepFirst ==
    /\ pc = "cycle_done"
    /\ UNCHANGED <<call, ret>>
    /\ previous_level' = IF previous_level # None THEN previous_level
                         ELSE detected_level
    /\ pc' = "interval_wait"
    /\ UNCHANGED <<stop_event, cycles, exit_code, locals, observed>>

\* _perform_running_cycle returned (True, updated_level): previous_level is
\* replaced, then stop_event.wait(wait_time) is entered
_run_action_loop_cycle_done ==
    /\ pc = "cycle_done"
    /\ UNCHANGED <<call, ret>>
    /\ previous_level' = IF detected_level # None THEN detected_level
                         ELSE previous_level
    /\ pc' = "interval_wait"
    /\ UNCHANGED <<stop_event, cycles, exit_code, locals, observed>>

_run_action_loop_wait_Sleep ==
    /\ pc = "interval_wait"
    /\ UNCHANGED <<call, ret>>
    /\ pc' = "while"
    /\ UNCHANGED <<stop_event, previous_level, cycles, exit_code, locals, observed>>

\* if stop_event.wait(wait_time): break
_run_action_loop_wait ==
    /\ pc = "interval_wait"
    /\ UNCHANGED <<call, ret>>
    /\ pc' = IF stop_event THEN "returned" ELSE "while"
    /\ UNCHANGED <<stop_event, previous_level, cycles, exit_code, locals, observed>>

main_return_AbortIsError ==
    /\ pc \in {"returned", "raised"}
    /\ UNCHANGED <<call, ret>>
    /\ exit_code' = IF pc = "raised" \/ errNotes > 0 THEN 1 ELSE 0
    /\ pc' = "exited"
    /\ UNCHANGED <<stop_event, previous_level, cycles, locals, observed>>

\* main: _run_action_loop returned: return 0; except Exception: return 1
main_return ==
    /\ pc \in {"returned", "raised"}
    /\ UNCHANGED <<call, ret>>
    /\ exit_code' = IF pc = "raised" THEN 1 ELSE 0
    /\ pc' = "exited"
    /\ UNCHANGED <<stop_event, previous_level, cycles, locals, observed>>

Next ==
    \/ handler
    \/ _run_action_loop_entry
    \/ _enter_running_state_poll
    \/ _enter_running_state_attempt
    \/ _enter_running_state_wait
    \/ _run_action_loop_not_started
    \/ _run_action_loop_started
    \/ _run_action_loop_while
    \/ _perform_healthcheck_cycle
    \/ _perform_level_cycle_enter
    \/ _perform_level_cycle_open
    \/ _perform_level_cycle_open_failed
    \/ _perform_level_cycle_opened
    \/ _perform_level_cycle_ocr
    \/ _perform_level_cycle_ocr_failed
    \/ _perform_level_cycle_notify
    \/ _perform_level_cycle_close
    \/ _perform_level_cycle_close_failed
    \/ _perform_zen_cycle_enter
    \/ _perform_zen_cycle_open
    \/ _perform_zen_cycle_open_failed
    \/ _perform_zen_cycle_opened
    \/ _perform_zen_cycle_ocr
    \/ _perform_zen_cycle_ocr_failed
    \/ _perform_zen_cycle_notify
    \/ _perform_zen_cycle_close
    \/ _perform_zen_cycle_close_failed
    \/ _run_action_loop_break
    \/ _run_action_loop_cycle_done
    \/ _run_action_loop_wait
    \/ main_return

Spec == Init /\ [][Next]_vars

\* The main thread: every step of main and _run_action_loop.  The signal
\* handler interrupts it but never suspends it, and every call it makes
\* (capture, detector, OCR, tap, sleep, notification, timed wait) returns or
\* raises, so the thread always takes its next step.
MainThread ==
    \/ _run_action_loop_entry
    \/ _enter_running_state_poll
    \/ _enter_running_state_attempt
    \/ _enter_running_state_wait
    \/ _run_action_loop_not_started
    \/ _run_action_loop_started
    \/ _run_action_loop_while
    \/ _perform_healthcheck_cycle
    \/ _perform_level_cycle_enter
    \/ _perform_level_cycle_open
    \/ _perform_level_cycle_open_failed
    \/ _perform_level_cycle_opened
    \/ _perform_level_cycle_ocr
    \/ _perform_level_cycle_ocr_failed
    \/ _perform_level_cycle_notify
    \/ _perform_level_cycle_close
    \/ _perform_level_cycle_close_failed
    \/ _perform_zen_cycle_enter
    \/ _perform_zen_cycle_open
    \/ _perform_zen_cycle_open_failed
    \/ _perform_zen_cycle_opened
    \/ _perform_zen_cycle_ocr
    \/ _perform_zen_cycle_ocr_failed
    \/ _perform_zen_cycle_notify
    \/ _perform_zen_cycle_close
    \/ _perform_zen_cycle_close_failed
    \/ _run_action_loop_break
    \/ _run_action_loop_cycle_done
    \/ _run_action_loop_wait
    \/ main_return

FairSpec == Init /\ [][Next]_vars /\ WF_vars(MainThread)

(***************************************************************************)
(* Properties                                                              *)
(***************************************************************************)
\* Positions at which an iteration of a bounded retry loop begins.
RetryLoopHeads ==
    {"starting_poll", "level_open_attempt", "level_ocr", "level_close",
     "zen_open_attempt", "zen_ocr", "zen_close"}

\* C1: in every bounded retry loop (STARTING, menu open and close, level and
\* currency OCR) the cancellation flag is polled before each attempt: an
\* iteration that begins with the flag set captures nothing and sends no key.
C1_NoAttemptOnceCancelled ==
    [][(stop_event /\ pc \in RetryLoopHeads)
          => (captures' = captures /\ taps' = taps /\ ocrTries' = ocrTries)]_vars

\* C2: when the in-game detector fails on every STARTING attempt and nothing
\* is cancelled, _enter_running_state has made exactly 5 captures and begun
\* exactly 4 waits when it returns failure, the start cue was not played, and
\* the loop returns without running any cycle.
C2_StartingExhausted ==
    /\ [](pc = "start_failed" /\ ~stop_event
            => /\ captures = 5
               /\ waits = 4
               /\ ~ingame_found
               /\ ~cue
               /\ cycles = 0 /\ taps = 0 /\ errNotes = 0)
    /\ [][pc = "start_failed" => pc' \in {"start_failed", "returned"}]_vars
    /\ [][pc = "returned" => pc' \in {"returned", "exited"}]_vars
    /\ [][pc = "exited" => pc' = "exited"]_vars

C2_Witness ==
    pc = "exited" /\ ~stop_event /\ ~cue /\ captures = 5 /\ waits = 4 /\ exit_code = 0

\* What a cycle can be seen to do: captures, key presses, OCR attempts,
\* notifications, and the cycles and level the loop carries.
CycleEffects ==
    <<taps, tapKey, captures, ocrTries, errNotes, levelNotes, zenNotes, cycles,
      previous_level>>

\* C3: once a step of a running cycle has returned failure the loop ends:
\* the only steps left are the loop's return and main's, and they capture
\* nothing, send no key, make no notification and begin no cycle or STARTING.
C3_AbortEndsLoop ==
    /\ [][pc = "cycle_failed"
            => pc' \in {"cycle_failed", "returned"} /\ UNCHANGED CycleEffects]_vars
    /\ [][pc = "returned"
            => pc' \in {"returned", "exited"} /\ UNCHANGED CycleEffects]_vars
    /\ [][pc = "exited" => pc' = "exited" /\ UNCHANGED CycleEffects]_vars

C3_Witness == pc = "exited" /\ errNotes = 1 /\ cycles = 2 /\ exit_code = 0

\* C4: the healthcheck succeeds exactly when, on its one capture, the in-game
\* detector found its needle and the dialog detector did not; otherwise one
\* error notification is sent and the cycle has failed before any key press.
C4_Healthcheck ==
    /\ pc = "level_open"
          => ingame_found /\ ~dialog_found /\ captures = 1 /\ errNotes = 0
    /\ (pc = "cycle_failed" /\ tapKey = "none")
          => (~ingame_found \/ dialog_found) /\ captures = 1 /\ errNotes = 1
    /\ (pc = "raised" /\ cycles > 0 /\ tapKey = "none")
          => (errNotes = 1 <=> (~ingame_found \/ dialog_found))

C4_Witness ==
    pc = "cycle_failed" /\ tapKey = "none" /\ ingame_found /\ dialog_found
       /\ errNotes = 1

\* Level thresholds of _perform_level_cycle crossed from previous to current.
ThresholdsCrossed(previous, current) ==
    {T \in {150, 280, 380} : previous < T /\ T <= current}

\* Positions of a cycle after the level notification step, the old
\* previous_level still in place.
AfterLevelNotify ==
    {"level_close", "level_close_failed", "zen_open", "zen_open_attempt",
     "zen_open_failed", "zen_opened", "zen_ocr", "zen_ocr_failed", "zen_read",
     "zen_close", "zen_close_failed", "cycle_done", "cycle_failed"}

\* C5: in a level check that parsed a level, a level notification is sent
\* exactly when a previous level is known and some threshold T of 150, 280,
\* 380 has previous < T <= current: 140 -> 160 notifies, 160 -> 170 does not.
C5_LevelNotifiedIffCrossed ==
    (pc \in AfterLevelNotify /\ detected_level # None)
       => /\ levelNotes \in {0, 1}
          /\ levelNotes = 1
                <=> /\ previous_level # None
                    /\ ThresholdsCrossed(previous_level, detected_level) # {}
          /\ (previous_level = 140 /\ detected_level = 160) => levelNotes = 1
          /\ (previous_level = 160 /\ detected_level = 170) => levelNotes = 0

C5_Witness ==
    pc = "cycle_done" /\ previous_level = 140 /\ detected_level = 160
       /\ levelNotes = 1

\* C6 as claimed: with a known previous level, the number of level
\* notifications of a cycle is the number of thresholds crossed.
C6_OneNotificationPerThreshold ==
    (pc \in AfterLevelNotify /\ detected_level # None /\ previous_level # None)
       => levelNotes = Cardinality(ThresholdsCrossed(previous_level, detected_level))

\* C6: with a known previous level, a cycle sends one level notification when
\* one or more thresholds are crossed, however many, and none when none is.
C6_OneNotificationPerCrossingCycle ==
    (pc \in AfterLevelNotify /\ detected_level # None /\ previous_level # None)
       => levelNotes =
             IF Cardinality(ThresholdsCrossed(previous_level, detected_level)) >= 1
             THEN 1 ELSE 0

C6_Witness ==
    /\ pc = "cycle_done"
    /\ previous_level = 140
    /\ detected_level = 400
    /\ Cardinality(ThresholdsCrossed(previous_level, detected_level)) = 3
    /\ levelNotes = 1

\* C7: a cycle whose currency check parsed a value has sent one currency
\* notification when the value is above 1,900,000,000 and none otherwise,
\* whatever the cycle; a cycle that parsed no value has sent none.
C7_ZenNotifiedByValueAlone ==
    /\ (detected_zen # None /\ pc # "zen_read")
          => zenNotes = IF detected_zen > 1900000000 THEN 1 ELSE 0
    /\ (detected_zen = None \/ pc = "zen_read") => zenNotes = 0

C7_Witness ==
    pc = "cycle_done" /\ cycles = 2 /\ detected_zen = 1900000001 /\ zenNotes = 1

\* C8: an open loop taps its key (C for the character menu, I for the
\* inventory), captures and detects at most 10 times and is left at the first
\* attempt that finds the menu open; when none does, 10 keys have been sent,
\* no OCR attempt is made, one error notification is sent and the cycle fails.
C8_OpenLoop ==
    /\ pc \in {"level_open_attempt", "zen_open_attempt"}
          => /\ taps = attempt /\ captures = attempt /\ attempt < 10
             /\ ~menu_open
             /\ ocrTries = 0
    /\ pc \in {"level_opened", "zen_opened"}
          => /\ menu_open
             /\ taps = attempt + 1 /\ captures = taps /\ taps <= 10
             /\ tapKey = (IF pc = "level_opened" THEN "C" ELSE "I")
    /\ pc \in {"level_open_failed", "zen_open_failed"}
          => /\ ~menu_open
             /\ taps = 10 /\ captures = 10
             /\ tapKey = (IF pc = "level_open_failed" THEN "C" ELSE "I")
             /\ ocrTries = 0 /\ errNotes = 0
    /\ (pc = "cycle_failed" /\ tapKey # "none" /\ ocrTries = 0)
          => ~menu_open /\ taps = 10 /\ errNotes = 1

C8_Witness ==
    pc = "cycle_failed" /\ tapKey = "I" /\ ocrTries = 0 /\ taps = 10
       /\ errNotes = 1

\* C9: with the menu open, the value is read in at most 3 OCR attempts
\* however many open attempts were used; an attempt captures once and sends
\* no key; the loop is left at the first attempt that parses a value, which
\* is in range; after 3 attempts without a value one error notification is
\* sent and the cycle fails.
C9_OcrStates ==
    /\ pc \in {"level_ocr", "zen_ocr"}
          => /\ ocrTries = attempt /\ captures = attempt /\ attempt < 3
             /\ menu_open /\ taps \in 1..10
             /\ (IF pc = "level_ocr" THEN detected_level ELSE detected_zen) = None
    /\ pc = "level_read"
          => /\ detected_level \in 0..400
             /\ ocrTries = attempt + 1 /\ captures = ocrTries /\ ocrTries <= 3
    /\ pc = "zen_read"
          => /\ detected_zen \in 0..2000000000
             /\ ocrTries = attempt + 1 /\ captures = ocrTries /\ ocrTries <= 3
    /\ pc = "level_ocr_failed"
          => detected_level = None /\ ocrTries = 3 /\ captures = 3 /\ errNotes = 0
    /\ pc = "zen_ocr_failed"
          => detected_zen = None /\ ocrTries = 3 /\ captures = 3 /\ errNotes = 0
    /\ (pc = "cycle_failed" /\ ocrTries > 0 /\
          (IF tapKey = "C" THEN detected_level ELSE detected_zen) = None)
          => ocrTries = 3 /\ errNotes = 1

\* (a step of the main thread: the signal handler changes stop_event only)
C9_OcrStep ==
    (pc \in {"level_ocr", "zen_ocr"} /\ stop_event' = stop_event)
       => /\ taps' = taps /\ tapKey' = tapKey
          /\ captures' = captures + 1
          /\ ocrTries' = ocrTries + 1

C9_OcrLoop == []C9_OcrStates /\ [][C9_OcrStep]_vars

C9_Witness ==
    pc = "cycle_failed" /\ tapKey = "C" /\ detected_level = None /\ ocrTries = 3
       /\ taps = 10 /\ errNotes = 1

\* C10: a close loop taps its key, captures and detects at most 10 times and
\* is left at the first attempt that finds the menu absent; a check succeeds
\* only after such an attempt; after 10 attempts that found the menu, one
\* error notification is sent and the cycle fails.
C10_CloseLoop ==
    /\ pc \in {"level_close", "zen_close"}
          => /\ taps = attempt /\ captures = attempt /\ attempt < 10
             /\ ~closed
             /\ attempt > 0 => menu_open
    /\ pc \in {"zen_open", "cycle_done"}
          => /\ closed /\ ~menu_open
             /\ taps = attempt + 1 /\ captures = taps /\ taps <= 10
             /\ tapKey = (IF pc = "zen_open" THEN "C" ELSE "I")
             /\ errNotes = 0
    /\ pc \in {"level_close_failed", "zen_close_failed"}
          => /\ ~closed /\ menu_open
             /\ taps = 10 /\ captures = 10
             /\ errNotes = 0
    /\ (pc = "cycle_failed" /\
          (IF tapKey = "C" THEN detected_level ELSE detected_zen) # None)
          => ~closed /\ menu_open /\ taps = 10 /\ errNotes = 1

C10_Witness ==
    pc = "cycle_failed" /\ tapKey = "I" /\ detected_zen # None /\ ~closed
       /\ taps = 10 /\ errNotes = 1

(***************************************************************************)
(* Functions evaluated on their own.  The run loop above keeps call and    *)
(* ret untouched; the actions below leave the run loop where Init put it   *)
(* and record one call of a function (call) with what it returned (ret):  *)
(* each behaviour makes one call, with arguments from the bounded sets     *)
(* named next to each action.                                              *)
(***************************************************************************)
HEALTHCHECK_INTERVAL_SECONDS == 180

\* Python's max and min of two numbers
max(a, b) == IF a >= b THEN a ELSE b

min(a, b) == IF a <= b THEN a ELSE b

\* Seconds a running cycle may have taken (time.monotonic() - cycle_start):
\* nothing in a cycle has a timeout, so the durations reach past the interval.
CycleDurations == {0, 1, 60, 179, 180, 181, 240, 400}

\* Values of time.monotonic() at the start of a cycle
CycleStarts == {0, 7, 180}

wait_time_Full(elapsed) == HEALTHCHECK_INTERVAL_SECONDS

\* wait_time = max(HEALTHCHECK_INTERVAL_SECONDS - elapsed, 0)
wait_time(elapsed) == max(HEALTHCHECK_INTERVAL_SECONDS - elapsed, 0)

\* One successful pass of the while loop of _run_action_loop with its
\* clock readings: cycle_start, the cycle (elapsed seconds), the wait
\* (stop_event.wait(wait_time)), and the reading at the head of the next
\* pass when the wait ran out without a signal.
_run_action_loop_interval ==
    /\ call.fn = "none"
    /\ \E cycle_start \in CycleStarts, elapsed \in CycleDurations,
          signalled \in BOOLEAN :
           /\ call' = [fn |-> "_run_action_loop", cycle_start |-> cycle_start,
                       elapsed |-> elapsed, signalled |-> signalled]
           /\ ret' = [wait_time |-> wait_time(elapsed),
                      next_cycle_start |->
                          IF signalled THEN None
                          ELSE cycle_start + elapsed + wait_time(elapsed)]
           /\ UNCHANGED loop

(***************************************************************************)
(* main's diagnostic modes.  The environment of one run: whether the files *)
(* a mode needs exist and can be read (ready), whether the template is     *)
(* found (found), whether the webhook accepts the message (delivered),     *)
(* and what the two OCR calls return.                                      *)
(***************************************************************************)
MaxFlags == 2

\* The flags main tests, in the order of its if statements
DiagnosticFlags ==
    <<"test_notification", "test_notification_img", "test_get_level",
      "test_dialog", "test_ingame", "test_inventory", "test_character",
      "test_image_find", "test_zen">>

FlagSets ==
    {a \in SUBSET {DiagnosticFlags[i] : i \in 1..Len(DiagnosticFlags)} :
        Cardinality(a) <= MaxFlags}

DiagnosticEnvs ==
    [ready : BOOLEAN, found : BOOLEAN, delivered : BOOLEAN,
     level : {OcrAbsent, [absent |-> FALSE, text |-> <<>>],
              [absent |-> FALSE, text |-> LevelText(245)]},
     zen : {OcrAbsent, [absent |-> FALSE, text |-> <<"1", "2", "a", "3", "4">>],
            [absent |-> FALSE, text |-> <<"1", ",", "2", "3", "4">>]}]

\* return 0 if success else 1
_run_test_notification(env) == IF env.delivered THEN 0 ELSE 1

\* return 1 without a crop; then 0 if success else 1
_run_test_notification_img(env) ==
    IF ~env.ready THEN 1
    ELSE IF env.delivered THEN 0 ELSE 1

\* return 1 if result is None; otherwise the text and the value (parsed or
\* not) are printed and the function returns 0
_run_test_get_level(env) == IF env.level.absent THEN 1 ELSE 0

\* the same for the currency
_run_test_zen(env) == IF env.zen.absent THEN 1 ELSE 0

\* return 1 for a missing or unreadable file or an empty region; then
\* exit_code = 0 if result else 2
_run_centered_image_search(env) ==
    IF ~env.ready THEN 1
    ELSE IF env.found THEN 0 ELSE 2

\* return 1 for a missing file; then 0 if result else 2
_run_image_find_test(env) ==
    IF ~env.ready THEN 1
    ELSE IF env.found THEN 0 ELSE 2

Ran(mode, code) == [mode |-> mode, code |-> code, loop_started |-> FALSE]

\* main, up to the point where it starts the run loop
main(args, env) ==
    IF "test_notification" \in args
        THEN Ran("test_notification", _run_test_notification(env))
    ELSE IF "test_notification_img" \in args
        THEN Ran("test_notification_img", _run_test_notification_img(env))
    ELSE IF "test_get_level" \in args
        THEN Ran("test_get_level", _run_test_get_level(env))
    ELSE IF "test_dialog" \in args
        THEN Ran("test_dialog", _run_centered_image_search(env))
    ELSE IF "test_ingame" \in args
        THEN Ran("test_ingame", _run_centered_image_search(env))
    ELSE IF "test_inventory" \in args
        THEN Ran("test_inventory", _run_centered_image_search(env))
    ELSE IF "test_character" \in args
        THEN Ran("test_character", _run_centered_image_search(env))
    ELSE IF "test_image_find" \in args
        THEN Ran("test_image_find", _run_image_find_test(env))
    ELSE IF "test_zen" \in args
        THEN Ran("test_zen", _run_test_zen(env))
    ELSE [mode |-> "_run_action_loop", code |-> None, loop_started |-> TRUE]

main_diagnostic ==
    /\ call.fn = "none"
    /\ \E args \in FlagSets, env \in DiagnosticEnvs :
           /\ call' = [fn |-> "main", args |-> args, env |-> env]
           /\ ret' = main(args, env)
           /\ UNCHANGED loop

(***************************************************************************)
(* Region geometry                                                         *)
(***************************************************************************)
MaxSize == 6

MaxSide == 3

_compute_region_bounds_Unclamped(total_size, region_size, desired_center) ==
    IF total_size <= 0 THEN <<0, 0>>
    ELSE LET start == desired_center - (region_size \div 2)
         IN  <<start, min(start + region_size, total_size)>>

_compute_region_bounds_HalfRoundedUp(total_size, region_size, desired_center) ==
    IF total_size <= 0 THEN <<0, 0>>
    ELSE LET max_start == max(total_size - region_size, 0)
             start == max(0, min(desired_center - ((region_size + 1) \div 2),
                                 max_start))
         IN  <<start, min(start + region_size, total_size)>>

\* Python's // rounds towards minus infinity, as \div does.
_compute_region_bounds(total_size, region_size, desired_center) ==
    IF total_size <= 0 THEN <<0, 0>>
    ELSE LET half_size == region_size \div 2
             max_start == max(total_size - region_size, 0)
             start == max(0, min(desired_center - half_size, max_start))
             end == min(start + region_size, total_size)
         IN  <<start, end>>

_calculate_centered_region_WidthForBoth(image_width, image_height, region_width, region_height, offset_x, offset_y) ==
    LET h == _compute_region_bounds(image_width, region_width,
                                    (image_width \div 2) + offset_x)
        v == _compute_region_bounds(image_width, region_height,
                                    (image_width \div 2) + offset_y)
    IN  <<h[1], v[1], h[2], v[2]>>

\* returns left, top, right, bottom
_calculate_centered_region(image_width, image_height, region_width, region_height, offset_x, offset_y) ==
    LET desired_center_x == (image_width \div 2) + offset_x
        desired_center_y == (image_height \div 2) + offset_y
        h == _compute_region_bounds(image_width, region_width, desired_center_x)
        v == _compute_region_bounds(image_height, region_height, desired_center_y)
    IN  <<h[1], v[1], h[2], v[2]>>

\* One call of _compute_region_bounds: sizes and centres on both sides of
\* every comparison the function makes.
_compute_region_bounds_call ==
    /\ call.fn = "none"
    /\ \E total_size \in -1..MaxSize, region_size \in -2..(MaxSize + 2),
          desired_center \in -3..(MaxSize + 3) :
           /\ call' = [fn |-> "_compute_region_bounds", total_size |-> total_size,
                       region_size |-> region_size,
                       desired_center |-> desired_center]
           /\ ret' = _compute_region_bounds(total_size, region_size, desired_center)
           /\ UNCHANGED loop

\* One call of _calculate_centered_region.  An image has no negative side;
\* the region sizes and offsets are configuration integers of any sign.
_calculate_centered_region_call ==
    /\ call.fn = "none"
    /\ \E image_width \in 0..MaxSide, image_height \in 0..MaxSide,
          region_width \in -1..(MaxSide + 1), region_height \in -1..(MaxSide + 1),
          offset_x \in -MaxSide..MaxSide, offset_y \in -MaxSide..MaxSide :
           /\ call' = [fn |-> "_calculate_centered_region",
                       image_width |-> image_width, image_height |-> image_height,
                       region_width |-> region_width,
                       region_height |-> region_height,
                       offset_x |-> offset_x, offset_y |-> offset_y]
           /\ ret' = _calculate_centered_region(image_width, image_height,
                         region_width, region_height, offset_x, offset_y)
           /\ UNCHANGED loop

(***************************************************************************)
(* The two parsers on texts assembled from pieces: every way a text can    *)
(* meet or miss each part of the two patterns.                             *)
(***************************************************************************)
\* what precedes the label
LevelLeads ==
    {<<>>,
     <<"x", " ">>,
     <<"L", "e", "v", "e", "l", ":", " ", "9", "9", "9", "/", "4", "0", "0", " ">>}

\* the label
LevelLabels ==
    {<<"L", "e", "v", "e", "l", ":">>,
     <<"l", "e", "v", "e", "l", ":">>,
     <<"L", "E", "V", "E", "L", ":">>,
     <<"L", "e", "v", "e", "1", ":">>,
     <<>>}

\* whitespace around the number
LevelGaps ==
    {<<>>,
     <<" ">>}

\* the number
LevelNumbers ==
    {<<>>,
     <<"0">>,
     <<"7">>,
     <<"2", "4", "5">>,
     <<"4", "0", "0">>,
     <<"4", "0", "1">>,
     <<"9", "9", "9">>,
     <<"0", "4", "0", "0">>}

\* what follows the number
LevelTails ==
    {<<"/", "4", "0", "0">>,
     <<"/", " ", "4", "0", "0">>,
     <<"/", "4", "0", "0", "0">>,
     <<"/", "4", "0">>,
     <<"4", "0", "0">>,
     <<>>}

ParserLevelTexts ==
    {lead \o label \o gap \o number \o gap2 \o tail :
        lead \in LevelLeads, label \in LevelLabels, gap \in LevelGaps,
        number \in LevelNumbers, gap2 \in LevelGaps, tail \in LevelTails}

\* what precedes the amount
ZenLeads ==
    {<<>>,
     <<" ">>,
     <<",">>,
     <<"a">>}

\* the amount
ZenBodies ==
    {<<>>,
     <<"0">>,
     <<"1", "2">>,
     <<"1", ",", "2", "3", "4", ",", "5", "6", "7">>,
     <<"1", ",", ",", "2">>,
     <<"1", "2", "a", "3", "4">>,
     <<"1", " ", "2">>,
     <<"2", ",", "0", "0", "0", ",", "0", "0", "0", ",", "0", "0", "0">>,
     <<"2", "0", "0", "0", "0", "0", "0", "0", "0", "1">>}

\* what follows the amount
ZenTails ==
    {<<>>,
     <<" ">>,
     <<"\n">>,
     <<",">>,
     <<".">>}

ParserZenTexts ==
    {lead \o body \o tail :
        lead \in ZenLeads, body \in ZenBodies, tail \in ZenTails}

_extract_level_value_call ==
    /\ call.fn = "none"
    /\ \E text \in ParserLevelTexts :
           /\ call' = [fn |-> "_extract_level_value", text |-> text]
           /\ ret' = _extract_level_value(text)
           /\ UNCHANGED loop

_parse_zen_value_call ==
    /\ call.fn = "none"
    /\ \E text \in ParserZenTexts :
           /\ call' = [fn |-> "_parse_zen_value", text |-> text]
           /\ ret' = _parse_zen_value(text)
           /\ UNCHANGED loop

(***************************************************************************)
(* find_image (image_service.py).  An image is its <<width, height>>; the  *)
(* correlation map cv2.matchTemplate returns is an input, one score per    *)
(* offset in row order, in thousandths (TM_CCOEFF_NORMED lies in -1..1).   *)
(***************************************************************************)
MaxImage == 2

ImageSizes == (1..MaxImage) \X (1..MaxImage)

Scores == {779, 780, 1000}

\* match_threshold: the default 0.78, and 1.0 and 1.01
MatchThresholds == {780, 1000, 1010}

abs(n) == IF n < 0 THEN -n ELSE n

\* cv2.matchTemplate(image, templ): a template that exceeds the image on
\* both axes is exchanged with it; one that exceeds it on one axis only
\* fails the size assertion of the call (cv2.error).
matchTemplate_raises(image, templ) ==
    /\ image[1] < templ[1] \/ image[2] < templ[2]
    /\ ~(image[1] <= templ[1] /\ image[2] <= templ[2])

\* number of offsets of the map
matchTemplate_size(image, templ) ==
    (abs(image[1] - templ[1]) + 1) * (abs(image[2] - templ[2]) + 1)

\* _, max_val, _, max_loc = cv2.minMaxLoc(result)
minMaxLoc(result) ==
    LET max_val == CHOOSE v \in {result[i] : i \in 1..Len(result)} :
                       \A i \in 1..Len(result) : result[i] <= v
        max_loc == CHOOSE i \in 1..Len(result) :
                       /\ result[i] = max_val
                       /\ \A j \in 1..(i - 1) : result[j] # max_val
    IN  [max_val |-> max_val, max_loc |-> max_loc]

\* The outcome of find_image: "raised" (no handler in find_image), "None",
\* or "found" with the confidence and the offset of the match.
find_image(needle, haystack, result, match_threshold) ==
    IF matchTemplate_raises(haystack, needle)
    THEN [outcome |-> "raised", confidence |-> None, top_left |-> None]
    ELSE LET m == minMaxLoc(result)
             confidence == m.max_val
         IN  IF confidence < match_threshold
             THEN [outcome |-> "None", confidence |-> None, top_left |-> None]
             ELSE [outcome |-> "found", confidence |-> confidence,
                   top_left |-> m.max_loc]

find_image_call ==
    /\ call.fn = "none"
    /\ \E needle \in ImageSizes, haystack \in ImageSizes,
          match_threshold \in MatchThresholds :
          \E result \in (IF matchTemplate_raises(haystack, needle) THEN {<<>>}
                         ELSE [1..matchTemplate_size(haystack, needle) -> Scores]) :
           /\ call' = [fn |-> "find_image", needle |-> needle,
                       haystack |-> haystack, result |-> result,
                       match_threshold |-> match_threshold]
           /\ ret' = find_image(needle, haystack, result, match_threshold)
           /\ UNCHANGED loop

(***************************************************************************)
(* A detector call: _run_centered_search_runtime on a screenshot file, a   *)
(* VisionSearchConfig and its needle.  The result names what the call      *)
(* returned (or that it raised) and which of the three diagnostic files    *)
(* of the detector it wrote.                                               *)
(***************************************************************************)
Screenshots == {"missing", "unreadable", "ok"}

\* region sizes and offsets of a VisionSearchConfig
SearchConfigs ==
    [region_width : 0..MaxImage, region_height : 0..MaxImage,
     offset_x : -1..1, offset_y : -1..1]

\* find_image's default match_threshold, 0.78
DEFAULT_MATCH_THRESHOLD == 780

\* return False, None, None
NoDetection ==
    [outcome |-> "returned", found |-> FALSE, region_path |-> "None",
     debug_path |-> "None", written |-> {}]

\* The region the call crops, <<width, height>>; <<0, 0>> when the call
\* returns before cropping.
SearchRegion(screenshot, needle_exists, image, config) ==
    IF screenshot # "ok" \/ ~needle_exists THEN <<0, 0>>
    ELSE LET r == _calculate_centered_region(image[1], image[2],
                      config.region_width, config.region_height,
                      config.offset_x, config.offset_y)
         IN  IF r[1] = r[3] \/ r[2] = r[4] \/ r[3] < r[1] \/ r[4] < r[2]
             THEN <<0, 0>>
             ELSE <<r[3] - r[1], r[4] - r[2]>>

_run_centered_search_runtime_CropBeforeCheck(screenshot, needle_exists, image, config, needle, result) ==
    LET region == SearchRegion(screenshot, needle_exists, image, config)
        m == find_image(needle, region, result, DEFAULT_MATCH_THRESHOLD)
    IN  IF screenshot # "ok" \/ ~needle_exists THEN NoDetection
        ELSE IF region = <<0, 0>>
             THEN [NoDetection EXCEPT !.written = {"region"}]
        ELSE IF m.outcome = "raised"
             THEN [outcome |-> "raised", found |-> FALSE,
                   region_path |-> "None", debug_path |-> "None",
                   written |-> {"region"}]
        ELSE [outcome |-> "returned", found |-> m.outcome = "found",
              region_path |-> "region", debug_path |-> "debug",
              written |-> IF m.outcome = "found"
                          THEN {"region", "region_marked", "debug"}
                          ELSE {"region", "debug"}]

\* The early returns in the order of the code (screenshot missing, needle
\* missing, screenshot unreadable, empty bounds, no pixels); then the crop
\* is written, find_image writes the marked crop when it finds the needle,
\* and the debug overlay is written after find_image returned.
_run_centered_search_runtime(screenshot, needle_exists, image, config, needle, result) ==
    IF screenshot = "missing" THEN NoDetection
    ELSE IF ~needle_exists THEN NoDetection
    ELSE IF screenshot = "unreadable" THEN NoDetection
    ELSE LET r == _calculate_centered_region(image[1], image[2],
                      config.region_width, config.region_height,
                      config.offset_x, config.offset_y)
             left == r[1]
             top == r[2]
             right == r[3]
             bottom == r[4]
         IN  IF left = right \/ top = bottom THEN NoDetection
             ELSE IF max(right - left, 0) * max(bottom - top, 0) = 0
                  THEN NoDetection
             ELSE LET m == find_image(needle, <<right - left, bottom - top>>,
                                      result, DEFAULT_MATCH_THRESHOLD)
                  IN  IF m.outcome = "raised"
                      THEN [outcome |-> "raised", found |-> FALSE,
                            region_path |-> "None", debug_path |-> "None",
                            written |-> {"region"}]
                      ELSE [outcome |-> "returned",
                            found |-> m.outcome = "found",
                            region_path |-> "region", debug_path |-> "debug",
                            written |->
                                IF m.outcome = "found"
                                THEN {"region", "region_marked", "debug"}
                                ELSE {"region", "debug"}]

\* One detector call.  The correlation map has the same score at every
\* offset; it is empty when find_image is not reached or raises.
_run_centered_search_runtime_call ==
    /\ call.fn = "none"
    /\ \E screenshot \in Screenshots, needle_exists \in BOOLEAN,
          image \in ImageSizes, config \in SearchConfigs,
          needle \in ImageSizes, score \in Scores :
          LET region == SearchRegion(screenshot, needle_exists, image, config)
              result == IF region = <<0, 0>> \/ matchTemplate_raises(region, needle)
                        THEN <<>>
                        ELSE [i \in 1..matchTemplate_size(region, needle) |-> score]
          IN /\ call' = [fn |-> "_run_centered_search_runtime",
                         screenshot |-> screenshot,
                         needle_exists |-> needle_exists, image |-> image,
                         config |-> config, needle |-> needle,
                         region |-> region, result |-> result]
             /\ ret' = _run_centered_search_runtime(screenshot, needle_exists,
                           image, config, needle, result)
             /\ UNCHANGED loop

(***************************************************************************)
(* One running cycle as a function of what its detectors and OCR calls     *)
(* report.  Taps, captures and notifications are taken to return; the      *)
(* level notifications, which add no tap, capture or OCR call, are left    *)
(* out.                                                                    *)
(***************************************************************************)
\* Reports and reads are given for more attempts than any loop makes.
MaxAttempts == 12

\* What a menu detector reports (menu open) after the 1st, 2nd, ... tap of
\* a loop: never, always, on odd taps, on even taps, from the last open
\* tried on, up to the last close tried.
MenuReports ==
    { [i \in 1..MaxAttempts |-> FALSE],
      [i \in 1..MaxAttempts |-> TRUE],
      [i \in 1..MaxAttempts |-> i % 2 = 1],
      [i \in 1..MaxAttempts |-> i % 2 = 0],
      [i \in 1..MaxAttempts |-> i >= MENU_MAX_RETRIES],
      [i \in 1..MaxAttempts |-> i < MENU_CLOSE_MAX_RETRIES] }

\* What the OCR gives on the 1st, 2nd, ... tried of a loop: the value from
\* the first tried on, from the last tried on, or not within the budget.
OcrReads(value, max_attempts) ==
    { [i \in 1..MaxAttempts |-> IF i >= k THEN value ELSE None] :
         k \in {1, max_attempts, max_attempts + 1} }

RECURSIVE OpenLoop_OneMore(_, _, _)
OpenLoop_OneMore(reports, tried, max_retries) ==
    IF tried > max_retries
    THEN [menu_open |-> FALSE, attempts |-> tried]
    ELSE IF reports[tried + 1]
         THEN [menu_open |-> TRUE, attempts |-> tried + 1]
         ELSE OpenLoop_OneMore(reports, tried + 1, max_retries)

OpenLoop_Unconfirmed(reports, tried, max_retries) ==
    [menu_open |-> TRUE, attempts |-> tried + 1]

\* for tried in range(max_retries): tap, capture, detector; break when the
\* menu is reported open
RECURSIVE OpenLoop(_, _, _)
OpenLoop(reports, tried, max_retries) ==
    IF tried >= max_retries
    THEN [menu_open |-> FALSE, attempts |-> tried]
    ELSE IF reports[tried + 1]
         THEN [menu_open |-> TRUE, attempts |-> tried + 1]
         ELSE OpenLoop(reports, tried + 1, max_retries)

\* for tried in range(max_attempts): capture, OCR; break on a value
RECURSIVE OcrLoop(_, _, _)
OcrLoop(reads, tried, max_attempts) ==
    IF tried >= max_attempts
    THEN [value |-> None, attempts |-> tried]
    ELSE IF reads[tried + 1] # None
         THEN [value |-> reads[tried + 1], attempts |-> tried + 1]
         ELSE OcrLoop(reads, tried + 1, max_attempts)

\* for tried in range(max_retries): tap, capture, detector; closed = True
\* and break when the menu is reported absent
RECURSIVE CloseLoop(_, _, _)
CloseLoop(reports, tried, max_retries) ==
    IF tried >= max_retries
    THEN [closed |-> FALSE, attempts |-> tried]
    ELSE IF ~reports[tried + 1]
         THEN [closed |-> TRUE, attempts |-> tried + 1]
         ELSE CloseLoop(reports, tried + 1, max_retries)

\* The outcome of a check: its result, the value it read, the taps of its
\* open loop, its OCR attempts, the taps of its close loop and its captures
\* (one per tap and one per OCR tried).
CheckOutcome(success, value, open_taps, ocr_attempts, close_taps) ==
    [ran |-> TRUE, success |-> success, value |-> value,
     open_taps |-> open_taps, ocr_attempts |-> ocr_attempts,
     close_taps |-> close_taps,
     captures |-> open_taps + ocr_attempts + close_taps]

\* A check _perform_running_cycle did not reach
NotRun ==
    [ran |-> FALSE, success |-> FALSE, value |-> None, open_taps |-> 0,
     ocr_attempts |-> 0, close_taps |-> 0, captures |-> 0]

\* _perform_level_cycle and _perform_zen_cycle, which differ in the key, the
\* detector, the OCR and what a failure returns as the value
MenuCheck(kept, open_reports, reads, close_reports, max_attempts) ==
    LET opening == OpenLoop(open_reports, 0, MENU_MAX_RETRIES)
        reading == OcrLoop(reads, 0, max_attempts)
        closing == CloseLoop(close_reports, 0, MENU_CLOSE_MAX_RETRIES)
    IN IF ~opening.menu_open
       THEN CheckOutcome(FALSE, kept, opening.attempts, 0, 0)
       ELSE IF reading.value = None
            THEN CheckOutcome(FALSE, kept, opening.attempts, reading.attempts, 0)
            ELSE CheckOutcome(closing.closed, reading.value, opening.attempts,
                              reading.attempts, closing.attempts)

_perform_level_cycle(previous, open_reports, reads, close_reports) ==
    MenuCheck(previous, open_reports, reads, close_reports, LEVEL_MAX_ATTEMPTS)

_perform_zen_cycle(open_reports, reads, close_reports) ==
    MenuCheck(None, open_reports, reads, close_reports, ZEN_MAX_ATTEMPTS)

\* healthcheck, level check, currency check; the first failure returns
\* (False, previous_level)
_perform_running_cycle(previous, ingame, dialog, level, zen) ==
    LET level_check == _perform_level_cycle(previous, level.open_reports,
                                            level.reads, level.close_reports)
        zen_check == _perform_zen_cycle(zen.open_reports, zen.reads,
                                        zen.close_reports)
        updated_level == level_check.value
    IN IF HealthcheckFails(ingame, dialog)
       THEN [success |-> FALSE, level |-> previous, captures |-> 1,
             level_check |-> NotRun, zen_check |-> NotRun]
       ELSE IF ~level_check.success
            THEN [success |-> FALSE, level |-> previous, captures |-> 1,
                  level_check |-> level_check, zen_check |-> NotRun]
            ELSE IF ~zen_check.success
                 THEN [success |-> FALSE, level |-> previous, captures |-> 1,
                       level_check |-> level_check, zen_check |-> zen_check]
                 ELSE [success |-> TRUE,
                       level |-> IF updated_level # None THEN updated_level
                                 ELSE previous,
                       captures |-> 1,
                       level_check |-> level_check, zen_check |-> zen_check]

\* One cycle, for each choice of what the detectors and the OCR report.
_perform_running_cycle_call ==
    /\ call.fn = "none"
    /\ \E previous \in {None, 140}, ingame \in BOOLEAN, dialog \in BOOLEAN,
          level_open \in MenuReports, level_close \in MenuReports,
          level_reads \in OcrReads(160, LEVEL_MAX_ATTEMPTS),
          zen_open \in MenuReports, zen_close \in MenuReports,
          zen_reads \in OcrReads(1234567, ZEN_MAX_ATTEMPTS) :
          LET level == [open_reports |-> level_open, reads |-> level_reads,
                        close_reports |-> level_close]
              zen == [open_reports |-> zen_open, reads |-> zen_reads,
                      close_reports |-> zen_close]
          IN /\ call' = [fn |-> "_perform_running_cycle",
                         previous_level |-> previous,
                         ingame |-> ingame, dialog |-> dialog,
                         level |-> level, zen |-> zen]
             /\ ret' = _perform_running_cycle(previous, ingame, dialog,
                                              level, zen)
             /\ UNCHANGED loop

CallNext ==
    \/ _run_action_loop_interval
    \/ main_diagnostic
    \/ _compute_region_bounds_call
    \/ _calculate_centered_region_call
    \/ _extract_level_value_call
    \/ _parse_zen_value_call
    \/ find_image_call
    \/ _run_centered_search_runtime_call
    \/ _perform_running_cycle_call

CallSpec == Init /\ [][CallNext]_vars

(***************************************************************************)
(* The interval between cycles                                             *)
(***************************************************************************)
IntervalMeasured ==
    call.fn = "_run_action_loop" /\ ret.next_cycle_start # None

\* C11 as stated: after a successful cycle the next cycle starts exactly
\* 180 seconds after the cycle started, however long the steps took.
C11_IntervalAlwaysFixed ==
    IntervalMeasured => ret.next_cycle_start - call.cycle_start = 180

\* C11: after a successful cycle the loop sleeps 180 seconds less the time
\* the cycle took, and not at all once the cycle took 180 seconds or more:
\* the next cycle starts 180 seconds after the cycle started when the steps
\* took at most 180 seconds, and as soon as the steps end when they took
\* longer.
C11_IntervalUnlessCycleLonger ==
    call.fn = "_run_action_loop" =>
        /\ ret.wait_time >= 0
        /\ ret.wait_time + call.elapsed >= 180
        /\ call.elapsed <= 180 => ret.wait_time + call.elapsed = 180
        /\ call.elapsed > 180 => ret.wait_time = 0
        /\ IntervalMeasured =>
              ret.next_cycle_start - call.cycle_start =
                  (IF call.elapsed <= 180 THEN 180 ELSE call.elapsed)

C11_Witness ==
    /\ IntervalMeasured
    /\ call.elapsed = 60 /\ ret.wait_time = 120
    /\ ret.next_cycle_start - call.cycle_start = 180

(***************************************************************************)
(* Failures of external actions, and the value main returns                *)
(***************************************************************************)
\* C12: a failure of an external action during the run loop (a key
\* injection, the start cue, the delivery of a notification) never leaves
\* the run loop as an exception and never makes main return 1.
C12_ExternalFailureNeverFatal ==
    pc # "raised" /\ exit_code # 1

\* C13: a run loop that ends by cancellation, by exhausting the STARTING
\* attempts or by a cycle abort returns to main, and main then returns 0;
\* main returns 1 only from an exception that escaped the loop.
C13_Step ==
    /\ (pc \in {"start_failed", "cycle_failed"} /\ pc' # pc)
          => pc' = "returned"
    /\ (pc \in {"run_action_loop", "while", "interval_wait"} /\ stop_event
          /\ pc' # pc)
          => pc' = "returned"
    /\ (pc \in {"starting_poll", "starting_wait"} /\ stop_event /\ pc' # pc)
          => pc' = "start_failed"
    /\ (pc = "returned" /\ pc' # pc) => (pc' = "exited" /\ exit_code' = 0)
    /\ (exit_code' = 1 /\ exit_code # 1) => pc = "raised"

C13_ExitCodes == pc = "exited" <=> exit_code \in {0, 1}

C13_CleanExit == []C13_ExitCodes /\ [][C13_Step]_vars

C13_Witness ==
    pc = "exited" /\ exit_code = 0 /\ errNotes = 1 /\ ~stop_event

(***************************************************************************)
(* Exit codes of the diagnostic modes                                      *)
(***************************************************************************)
FirstFlag(args) ==
    DiagnosticFlags[CHOOSE i \in 1..Len(DiagnosticFlags) :
        /\ DiagnosticFlags[i] \in args
        /\ \A j \in 1..(i - 1) : DiagnosticFlags[j] \notin args]

\* The exit code C14 gives a mode: 0 found or succeeded, 1 precondition or
\* read failure, 2 ran but nothing found (OCR modes: no value parsed).
StatedExitCode(mode, env) ==
    CASE mode = "test_notification" -> IF env.delivered THEN 0 ELSE 1
      [] mode = "test_notification_img" ->
            IF env.ready /\ env.delivered THEN 0 ELSE 1
      [] mode = "test_get_level" ->
            IF env.level.absent THEN 1
            ELSE IF LevelOcrValue(env.level) = None THEN 2 ELSE 0
      [] mode = "test_zen" ->
            IF env.zen.absent THEN 1
            ELSE IF ZenOcrValue(env.zen) = None THEN 2 ELSE 0
      [] OTHER -> IF ~env.ready THEN 1 ELSE IF env.found THEN 0 ELSE 2

\* C14: with one or more diagnostic flags, main runs the first flag in the
\* fixed order and nothing else, does not start the run loop, and returns
\* 0 (found or succeeded), 1 (precondition or read failure) or 2 (ran, not
\* found; for an OCR mode: no value parsed).
C14_DiagnosticExitCodes ==
    (call.fn = "main" /\ call.args # {}) =>
        /\ ret.mode = FirstFlag(call.args)
        /\ ~ret.loop_started
        /\ ret.code = StatedExitCode(ret.mode, call.env)

(***************************************************************************)
(* Region geometry                                                         *)
(***************************************************************************)
\* C15: for total_size > 0, 0 < region_size <= total_size and any
\* desired_center, _compute_region_bounds returns (start, end) with
\* end - start = region_size and 0 <= start <= end <= total_size.
C15_WindowInside ==
    (/\ call.fn = "_compute_region_bounds"
     /\ call.total_size > 0
     /\ 0 < call.region_size /\ call.region_size <= call.total_size)
        => /\ ret[2] - ret[1] = call.region_size
           /\ 0 <= ret[1] /\ ret[1] <= ret[2] /\ ret[2] <= call.total_size

C15_Witness ==
    /\ call.fn = "_compute_region_bounds"
    /\ call.total_size = 5 /\ call.region_size = 3 /\ call.desired_center = 7
    /\ ret = <<2, 5>>

RegionInvariant ==
    /\ 0 <= ret[1] /\ ret[1] <= ret[3] /\ ret[3] <= call.image_width
    /\ 0 <= ret[2] /\ ret[2] <= ret[4] /\ ret[4] <= call.image_height

HalfFloor(n) == CHOOSE q \in -(MaxSize + 4)..(MaxSize + 4) : 2 * q <= n /\ n < 2 * q + 2

clamp(x, lo, hi) == IF x < lo THEN lo ELSE IF x > hi THEN hi ELSE x

\* The operator of C17
compute_bounds(total_size, region_size, desired_center) ==
    IF total_size <= 0 THEN <<0, 0>>
    ELSE LET most == IF total_size - region_size > 0
                     THEN total_size - region_size ELSE 0
             start == clamp(desired_center - HalfFloor(region_size), 0, most)
         IN  <<start,
               IF start + region_size < total_size THEN start + region_size
               ELSE total_size>>

\* C17: _compute_region_bounds returns what compute_bounds gives;
\* _calculate_centered_region is compute_bounds on each axis with centre
\* floor(dimension / 2) + offset; and a region larger than the image gives
\* the whole axis.
C17_MatchesReference ==
    /\ call.fn = "_compute_region_bounds"
          => ret = compute_bounds(call.total_size, call.region_size,
                                  call.desired_center)
    /\ call.fn = "_calculate_centered_region"
          => /\ <<ret[1], ret[3]>> =
                    compute_bounds(call.image_width, call.region_width,
                        HalfFloor(call.image_width) + call.offset_x)
             /\ <<ret[2], ret[4]>> =
                    compute_bounds(call.image_height, call.region_height,
                        HalfFloor(call.image_height) + call.offset_y)
             /\ call.region_width > call.image_width
                    => (ret[1] = 0 /\ ret[3] = call.image_width)
             /\ call.region_height > call.image_height
                    => (ret[2] = 0 /\ ret[4] = call.image_height)

C17_Witness ==
    /\ call.fn = "_calculate_centered_region"
    /\ call.image_width = 3 /\ call.region_width = 4 /\ call.offset_x = 2
    /\ call.image_height = 3 /\ call.region_height = 1 /\ call.offset_y = -3
    /\ ret = <<0, 0, 3, 1>>

(***************************************************************************)
(* The parsers                                                             *)
(***************************************************************************)
\* The number the digits of t spell, read by place value; other characters
\* (the commas) are passed over.
RECURSIVE DecimalValue(_)
DecimalValue(t) ==
    IF t = <<>> THEN 0
    ELSE LET front == SubSeq(t, 1, Len(t) - 1)
         IN  IF IsDigit(t[Len(t)])
             THEN DigitValue(t[Len(t)]) + 10 * DecimalValue(front)
             ELSE DecimalValue(front)

Blank(t, from, to) == \A k \in from..to : IsSpace(t[k])

\* <<s, a, b>>: 'Level:' (in any letter case) at s, the digits a..b after
\* it, then '/' and '400', with nothing but whitespace in between.
LevelOccurrences(t) ==
    LET Label(s) ==
            /\ s + 5 <= Len(t)
            /\ \A k \in 0..5 :
                  \/ t[s + k] = <<"L", "E", "V", "E", "L", ":">>[k + 1]
                  \/ t[s + k] = <<"l", "e", "v", "e", "l", ":">>[k + 1]
        Number(s, a, b) ==
            /\ a <= b
            /\ Blank(t, s + 6, a - 1)
            /\ \A k \in a..b : IsDigit(t[k])
            /\ \E p \in (b + 1)..Len(t) :
                  /\ Blank(t, b + 1, p - 1) /\ t[p] = "/"
                  /\ \E q \in (p + 1)..(Len(t) - 2) :
                        /\ Blank(t, p + 1, q - 1)
                        /\ SubSeq(t, q, q + 2) = <<"4", "0", "0">>
    IN  UNION {{o \in {s} \X ((s + 6)..Len(t)) \X ((s + 6)..Len(t)) :
                   Number(s, o[2], o[3])} :
               s \in {s \in 1..Len(t) : Label(s)}}

\* The level C18 reads from a text: the number of the first occurrence when
\* it lies in 0..400.
StatedLevel(t) ==
    LET occ == LevelOccurrences(t)
    IN  IF occ = {} THEN None
        ELSE LET o == CHOOSE x \in occ : \A y \in occ : x[1] <= y[1]
                 n == DecimalValue(SubSeq(t, o[2], o[3]))
             IN  IF 0 <= n /\ n <= 400 THEN n ELSE None

\* C18: _extract_level_value returns the integer written after 'Level:' and
\* before '/400' when the text holds that pattern and the integer lies in
\* 0..400, and None otherwise; 'Level: 245/400' gives 245, 'Level: 999/400'
\* and the empty text give None.
C18_LevelParsed ==
    call.fn = "_extract_level_value" =>
        /\ ret = StatedLevel(call.text)
        /\ call.text = LevelText(245) => ret = 245
        /\ call.text = LevelText(999) => ret = None
        /\ call.text = <<>> => ret = None

C18_Witness ==
    /\ call.fn = "_extract_level_value"
    /\ call.text = <<"x", " ">> \o LevelText(245)
    /\ ret = 245

Trimmed(t) ==
    LET ink == {k \in 1..Len(t) : ~IsSpace(t[k])}
    IN  IF ink = {} THEN <<>>
        ELSE SubSeq(t, CHOOSE k \in ink : \A j \in ink : k <= j,
                       CHOOSE k \in ink : \A j \in ink : k >= j)

DigitsAndCommas(t) ==
    /\ \A k \in 1..Len(t) : IsDigit(t[k]) \/ t[k] = ","
    /\ \E k \in 1..Len(t) : IsDigit(t[k])

InZenRange(n) == 0 <= n /\ n <= 2000000000

\* C19 as stated: the trimmed text is accepted when it is made of digits
\* and commas only and its number lies in 0..2,000,000,000.
C19_AcceptsDigitsAndCommas ==
    call.fn = "_parse_zen_value" =>
        LET t == Trimmed(call.text)
        IN  ret = (IF DigitsAndCommas(t) /\ InZenRange(DecimalValue(t))
                   THEN DecimalValue(t) ELSE None)

\* C19: _parse_zen_value accepts a text exactly when the trimmed text
\* starts with a digit, holds digits and commas only, and the number left
\* after stripping the commas lies in 0..2,000,000,000; it then returns
\* that number, and None for every other text.
C19_AcceptsDigitThenDigitsAndCommas ==
    call.fn = "_parse_zen_value" =>
        LET t == Trimmed(call.text)
        IN  /\ ret = (IF /\ DigitsAndCommas(t) /\ IsDigit(t[1])
                         /\ InZenRange(DecimalValue(t))
                      THEN DecimalValue(t) ELSE None)
            /\ call.text = <<"1", ",", "2", "3", "4", ",", "5", "6", "7">>
                  => ret = 1234567
            /\ call.text = <<"1", "2", "a", "3", "4">> => ret = None
            /\ call.text = <<"2", "0", "0", "0", "0", "0", "0", "0", "0", "1">>
                  => ret = None

C19_Witness ==
    /\ call.fn = "_parse_zen_value"
    /\ call.text = <<" ", "1", ",", "2", "3", "4", ",", "5", "6", "7", "\n">>
    /\ ret = 1234567

(***************************************************************************)
(* The template matcher's threshold                                        *)
(***************************************************************************)
ScoreAtLeast(threshold) ==
    \E i \in 1..Len(call.result) : call.result[i] >= threshold

\* C20: find_image returns a match exactly when some offset scores at least
\* the threshold, the absent result when none does, and therefore the
\* absent result for every pair of images at threshold 1.01.
C20_FoundIffAtThreshold ==
    call.fn = "find_image" =>
        /\ ret.outcome = "found" <=> ScoreAtLeast(call.match_threshold)
        /\ ~ScoreAtLeast(call.match_threshold) => ret.outcome = "None"
        /\ call.match_threshold = 1010 => ret.outcome = "None"

(***************************************************************************)
(* Detector calls                                                          *)
(***************************************************************************)
Larger(needle, haystack) == needle[1] > haystack[1] \/ needle[2] > haystack[2]

\* C21: for a needle larger than the haystack in width or in height,
\* find_image returns the absent result and does not raise, and a detector
\* call whose needle is larger than its region returns found = false.
C21_OversizeNeedleNotFound ==
    /\ (call.fn = "find_image" /\ Larger(call.needle, call.haystack))
          => ret.outcome = "None"
    /\ (/\ call.fn = "_run_centered_search_runtime"
        /\ call.region # <<0, 0>>
        /\ Larger(call.needle, call.region))
          => (ret.outcome = "returned" /\ ~ret.found)

EmptyBounds ==
    LET r == _calculate_centered_region(call.image[1], call.image[2],
                 call.config.region_width, call.config.region_height,
                 call.config.offset_x, call.config.offset_y)
    IN  r[1] = r[3] \/ r[2] = r[4]

\* C22: a detector call whose screenshot or needle file is missing, whose
\* screenshot is unreadable or whose region is empty returns
\* (False, None, None) without raising and without writing a file; a call
\* that returns found = true returns both paths.
C22_NoDetectionWithoutFiles ==
    call.fn = "_run_centered_search_runtime" =>
        /\ (\/ call.screenshot \in {"missing", "unreadable"}
            \/ ~call.needle_exists
            \/ EmptyBounds)
              => /\ ret.outcome = "returned" /\ ~ret.found
                 /\ ret.region_path = "None" /\ ret.debug_path = "None"
                 /\ ret.written = {}
        /\ ret.found => (ret.region_path # "None" /\ ret.debug_path # "None")

C22_Witness ==
    /\ call.fn = "_run_centered_search_runtime"
    /\ call.screenshot = "ok" /\ call.needle_exists
    /\ call.config.region_width = 0 /\ call.config.region_height = 2
    /\ ret = NoDetection

\* C23: a detector call that reaches the matching has written its region
\* crop, its marked region image and its debug overlay when it ends,
\* whether or not the needle was found.
C23_AllDiagnosticsWritten ==
    (call.fn = "_run_centered_search_runtime" /\ call.region # <<0, 0>>)
        => ret.written = {"region", "region_marked", "debug"}

(***************************************************************************)
(* Cancellation in STARTING                                                *)
(***************************************************************************)
C24_Step ==
    /\ (stop_event /\ pc \in {"starting_poll", "starting_wait"} /\ pc' # pc)
          => /\ pc' = "start_failed"
             /\ captures' = captures /\ ~cue' /\ cycles' = 0 /\ taps' = 0
    /\ (pc = "start_failed" /\ pc' # pc)
          => (pc' = "returned" /\ cue' = cue /\ UNCHANGED CycleEffects)
    /\ (stop_event /\ pc = "run_action_loop" /\ pc' # pc)
          => /\ pc' = "returned"
             /\ captures' = 0 /\ ~cue' /\ cycles' = 0 /\ taps' = 0
    /\ (pc = "returned" /\ pc' # pc)
          => (pc' = "exited" /\ cue' = cue /\ UNCHANGED CycleEffects)

C24_NotStarted == pc = "start_failed" => (~cue /\ cycles = 0 /\ taps = 0)

\* C24: in STARTING, with the flag set at the head of an attempt or in the
\* wait between attempts, the next step is the failed return of
\* _enter_running_state: no capture, no detector run, no start cue, and
\* the loop returns without a cycle; with the flag set when the run loop
\* is entered the loop returns having captured nothing.
C24_StartingCancelled == []C24_NotStarted /\ [][C24_Step]_vars

C24_Witness ==
    /\ pc = "exited" /\ stop_event /\ exit_code = 0
    /\ captures = 2 /\ waits = 2 /\ ~cue /\ cycles = 0 /\ taps = 0

(***************************************************************************)
(* previous_level                                                          *)
(***************************************************************************)
C25_Range ==
    /\ previous_level = None \/ previous_level \in 0..LEVEL_MAX_VALUE
    /\ cycles = 0 => previous_level = None

C25_Step ==
    /\ previous_level' # previous_level => pc = "cycle_done"
    /\ (pc = "cycle_done" /\ pc' # pc)
          => /\ pc' = "interval_wait"
             /\ detected_level \in 0..LEVEL_MAX_VALUE
             /\ previous_level' = detected_level
    /\ (pc = "cycle_failed" /\ pc' # pc) => previous_level' = previous_level

\* C25: previous_level is None until a cycle has completed, is assigned
\* only when a cycle returns success, then equals the level that cycle
\* parsed, is left alone by a failed cycle, and is always None or an
\* integer in [0, 400].
C25_PreviousLevel == []C25_Range /\ [][C25_Step]_vars

C25_Witness ==
    /\ pc = "interval_wait" /\ cycles = 2
    /\ previous_level = 400 /\ detected_level = 400

(***************************************************************************)
(* Cancellation in RUNNING                                                 *)
(***************************************************************************)
InRunning ==
    pc \notin {"run_action_loop", "starting_poll", "starting_attempt",
               "starting_wait", "start_failed", "started", "returned",
               "raised", "exited"}

CycleEnds == {"cycle_done", "cycle_failed", "raised"}

InCycle == InRunning /\ pc \notin {"while", "interval_wait"} \cup CycleEnds

LoopEnded == pc \in {"returned", "raised", "exited"}

C26_Step ==
    stop_event =>
        /\ stop_event'
        /\ cycles' = cycles
        /\ (pc \in {"while", "interval_wait"} /\ pc' # pc)
              => (pc' = "returned" /\ UNCHANGED CycleEffects)
        /\ (InCycle /\ pc' # pc) => (InCycle' \/ pc' \in CycleEnds)
        /\ (pc = "cycle_done" /\ pc' # pc) => pc' = "interval_wait"
        /\ (pc = "cycle_failed" /\ pc' # pc) => pc' = "returned"

\* C26: once the flag is set in RUNNING no cycle is started; the cycle in
\* progress goes on to its own end, the loop head and the interval wait go
\* straight to the return of the run loop, and the run loop ends whatever
\* the detectors and the OCR report.
C26_CancelledRunningEnds ==
    /\ [][C26_Step]_vars
    /\ (stop_event /\ InRunning) ~> LoopEnded

C26_Witness ==
    /\ pc = "returned" /\ stop_event /\ cycles = 1
    /\ previous_level = 160 /\ detected_zen # None /\ closed /\ errNotes = 0

(***************************************************************************)
(* Error notifications                                                     *)
(***************************************************************************)
InStarting ==
    pc \in {"run_action_loop", "starting_poll", "starting_attempt",
            "starting_wait", "start_failed", "started"}

C27_Notes ==
    /\ errNotes \in {0, 1}
    /\ pc = "cycle_failed" => errNotes = 1
    /\ pc = "cycle_done" => errNotes = 0
    /\ InCycle => errNotes = 0
    /\ InStarting => errNotes = 0

C27_Step ==
    /\ InStarting => errNotes' = 0
    /\ (InCycle /\ errNotes' # errNotes)
          => (errNotes' = 1 /\ pc' \in {"cycle_failed", "raised"})
    /\ (pc = "cycle_failed" /\ pc' # pc)
          => (pc' = "returned" /\ errNotes' = 1)

\* C27: a cycle that returns failure has attempted exactly one error
\* notification, made by the step that failed and followed at once by the
\* end of the cycle and of the loop; a cycle that returns success has
\* attempted none; none is attempted in STARTING.
C27_OneErrorNotification == []C27_Notes /\ [][C27_Step]_vars

C27_Witness ==
    /\ pc = "returned" /\ errNotes = 1 /\ cycles = 2
    /\ detected_level # None /\ tapKey = "I" /\ ~stop_event

(***************************************************************************)
(* Order of the steps of a cycle                                           *)
(***************************************************************************)
LevelStep ==
    {"level_open", "level_open_attempt", "level_open_failed", "level_opened",
     "level_ocr", "level_ocr_failed", "level_read", "level_close",
     "level_close_failed"}

ZenStep ==
    {"zen_open", "zen_open_attempt", "zen_open_failed", "zen_opened", "zen_ocr",
     "zen_ocr_failed", "zen_read", "zen_close", "zen_close_failed"}

HealthcheckPassed == ingame_found /\ ~dialog_found

C28_Order ==
    /\ InCycle => pc \in {"healthcheck"} \cup LevelStep \cup ZenStep
    /\ pc = "healthcheck" => (taps = 0 /\ tapKey = "none")
    /\ pc \in LevelStep => (HealthcheckPassed /\ tapKey \in {"none", "C"})
    /\ pc \in ZenStep => (HealthcheckPassed /\ detected_level # None)
    /\ pc = "cycle_done" => (HealthcheckPassed /\ detected_level # None
                               /\ detected_zen # None /\ tapKey = "I")
    /\ (pc = "cycle_failed" /\ ~HealthcheckPassed) => (taps = 0 /\ tapKey = "none")
    /\ tapKey = "I" => (HealthcheckPassed /\ detected_level # None)

C28_Step ==
    /\ (pc = "healthcheck" /\ pc' # pc)
          => /\ pc' \in {"level_open", "cycle_failed", "raised"}
             /\ taps' = 0 /\ tapKey' = "none"
             /\ pc' = "level_open" <=> HealthcheckPassed'
    /\ (pc \in LevelStep /\ pc' # pc)
          => /\ pc' \in LevelStep \cup {"zen_open", "cycle_failed", "raised"}
             /\ tapKey' # "I"
    /\ (pc' = "level_open" /\ pc' # pc) => pc = "healthcheck"
    /\ (pc' = "zen_open" /\ pc' # pc)
          => /\ pc = "level_close"
             /\ closed' /\ ~menu_open' /\ tapKey' = "C"
    /\ (pc \in ZenStep /\ pc' # pc)
          => pc' \in ZenStep \cup {"cycle_done", "cycle_failed", "raised"}
    /\ (tapKey' = "I" /\ taps' # taps) => pc \in ZenStep

\* C28: a cycle runs the healthcheck, then the level check, then the
\* currency check, entering a step only from the success of the one before:
\* a cycle that fails its healthcheck has sent no key, and key I is sent
\* only by the currency check, which is entered only from a level check
\* that parsed a level and confirmed the character menu closed.
C28_StepsInOrder == []C28_Order /\ [][C28_Step]_vars

C28_Witness ==
    /\ pc = "returned" /\ cycles = 2 /\ errNotes = 1
    /\ ~HealthcheckPassed /\ taps = 0 /\ tapKey = "none"

(***************************************************************************)
(* The actions of one cycle                                                *)
(***************************************************************************)
CycleTaps(check) == check.open_taps + check.close_taps

CycleCaptures == ret.captures + ret.level_check.captures + ret.zen_check.captures

\* C29: whatever the detectors and the OCR report, a cycle returns having
\* tapped C at most 20 times and I at most 20 times (10 to open, 10 to
\* close), made at most 3 level and 3 currency OCR attempts, and captured
\* at most 47 screenshots: 1 in the healthcheck and at most 23 in each of
\* the level and currency checks.
C29_CycleBounded ==
    call.fn = "_perform_running_cycle" =>
       /\ ret.success \in BOOLEAN
       /\ \A check \in {ret.level_check, ret.zen_check} :
             /\ check.open_taps \in 0..10 /\ check.close_taps \in 0..10
             /\ CycleTaps(check) <= 20
             /\ check.ocr_attempts \in 0..3
             /\ check.captures <= 23
       /\ ret.captures = 1
       /\ CycleCaptures <= 47

C29_Witness ==
    /\ call.fn = "_perform_running_cycle" /\ ret.success
    /\ CycleTaps(ret.level_check) = 20 /\ CycleTaps(ret.zen_check) = 20
    /\ ret.level_check.ocr_attempts = 3 /\ ret.zen_check.ocr_attempts = 3
    /\ CycleCaptures = 47

(***************************************************************************)
(* The menus after a cycle                                                 *)
(***************************************************************************)
\* The state of a menu that was `open` and has since been tapped n times
Toggled(open, n) == IF n % 2 = 0 THEN open ELSE ~open

\* What a truthful detector reports after each further tap of a menu that
\* was `open` and has been tapped `before` times
TruthfulReports(open, before) ==
    [i \in 1..MaxAttempts |-> Toggled(open, before + i)]

TruthfulCheck(inputs, check, open) ==
    /\ inputs.open_reports = TruthfulReports(open, 0)
    /\ inputs.close_reports = TruthfulReports(open, check.open_taps)

\* C30: with taps that toggle the menu and detectors that report its true
\* state, whichever of the character menu and the inventory were open when
\* the cycle began, an OCR attempt is made only with its menu open, and a
\* cycle that returns success leaves both menus closed.
C30_MenusClosedAfterSuccess ==
    call.fn = "_perform_running_cycle" =>
       \A character_menu \in BOOLEAN, inventory \in BOOLEAN :
          LET level_check == ret.level_check
              zen_check == ret.zen_check
          IN /\ (/\ call.level.open_reports = TruthfulReports(character_menu, 0)
                 /\ level_check.ocr_attempts > 0)
                   => Toggled(character_menu, level_check.open_taps)
             /\ (/\ call.zen.open_reports = TruthfulReports(inventory, 0)
                 /\ zen_check.ocr_attempts > 0)
                   => Toggled(inventory, zen_check.open_taps)
             /\ (/\ TruthfulCheck(call.level, level_check, character_menu)
                 /\ TruthfulCheck(call.zen, zen_check, inventory)
                 /\ ret.success)
                   => /\ ~Toggled(character_menu, CycleTaps(level_check))
                      /\ ~Toggled(inventory, CycleTaps(zen_check))

C30_Witness ==
    /\ call.fn = "_perform_running_cycle" /\ ret.success
    /\ TruthfulCheck(call.level, ret.level_check, TRUE)
    /\ TruthfulCheck(call.zen, ret.zen_check, FALSE)
    /\ CycleTaps(ret.level_check) = 3 /\ CycleTaps(ret.zen_check) = 2

====
